---- MODULE Spec2Model ----
(***************************************************************************)
(* Model of the trading tools of the hyperliquid trading agent:           *)
(* getAccountRiskProfile, getAssetSpecs, roundToLotSize, roundToTickSize,  *)
(* calculatePositionSize, analyzeSetup, calculateAdvancedOpportunityScore, *)
(* calculateTechnicalIndicators, calculateWinningMetrics,                  *)
(* identifyRealPatterns, recognizePatterns, generateRecommendation,         *)
(* findTopOpportunities, executeTrade, closePosition, updateStopLoss,      *)
(* monitorPositions, the price lookup of the tools that need a price, the  *)
(* sessions of authenticateUser, and testRpcEndpoint under                 *)
(* compareNetworkRpcs.                                                     *)
(*                                                                         *)
(* Numbers.  The program computes with JavaScript numbers.  The model      *)
(* computes with exact rationals [n |-> numerator, d |-> denominator]      *)
(* in lowest terms, and models Math.round, Math.min, Math.max, Math.abs    *)
(* and the "round to k decimals" idiom Math.round(x * k) / k by what they  *)
(* do on the exact value.  The binary rounding error of IEEE doubles       *)
(* (about 1e-16 relative) is not modelled.                                 *)
(***************************************************************************)
EXTENDS Integers, Sequences, FiniteSets, TLC

\* op, args, ret: the last tool or helper called, its inputs and its result.
\* userSessions: the session map; now: Date.now(), in minutes;
\* lastAuth: for each session id the time of its last successful
\* authenticateUser (-1: none), kept for the statement of the session
\* lifetime.
\* rpc: the run of compareNetworkRpcs in progress: the position of the tool
\* and, for each endpoint, the position of its testRpcEndpoint call, its
\* abort timer and its result.
VARIABLES op, args, ret, userSessions, now, lastAuth, rpc

\* what a call of a trading tool leaves alone
sessVars == <<userSessions, now, lastAuth, rpc>>

vars == <<op, args, ret, userSessions, now, lastAuth, rpc>>

(***************************************************************************)
(* Exact rational arithmetic                                               *)
(***************************************************************************)
RECURSIVE GCD(_, _)
GCD(a, b) == IF b = 0 THEN a ELSE GCD(b, a % b)

Abs(x) == IF x < 0 THEN -x ELSE x

\* the rational n/d (d > 0) in lowest terms
Rat(n, d) ==
  LET g == GCD(Abs(n), d)
  IN  [n |-> n \div g, d |-> d \div g]

R(i) == [n |-> i, d |-> 1]

RMul(a, b) ==
  LET g1 == GCD(Abs(a.n), b.d)
      g2 == GCD(Abs(b.n), a.d)
  IN  IF a.n = 0 \/ b.n = 0 THEN R(0)
      ELSE [n |-> (a.n \div g1) * (b.n \div g2),
            d |-> (a.d \div g2) * (b.d \div g1)]

\* a / b for b # 0
RDiv(a, b) ==
  IF b.n > 0 THEN RMul(a, [n |-> b.d, d |-> b.n])
  ELSE RMul(a, [n |-> -b.d, d |-> -b.n])

RAdd(a, b) ==
  LET g == GCD(a.d, b.d)
  IN  Rat(a.n * (b.d \div g) + b.n * (a.d \div g), (a.d \div g) * b.d)

RNeg(a) == [n |-> -a.n, d |-> a.d]

RSub(a, b) == RAdd(a, RNeg(b))

\* Math.floor
MathFloor(a) == a.n \div a.d

\* a < b: by the integer parts, and by the fractional parts when those agree
RLt(a, b) ==
  LET fa == MathFloor(a)
      fb == MathFloor(b)
      g == GCD(a.d, b.d)
  IN  IF fa # fb THEN fa < fb
      ELSE (a.n - fa * a.d) * (b.d \div g) < (b.n - fb * b.d) * (a.d \div g)

RLe(a, b) == ~RLt(b, a)

RGt(a, b) == RLt(b, a)

RGe(a, b) == RLe(b, a)

\* Math.abs
MathAbs(a) == [n |-> Abs(a.n), d |-> a.d]

\* Math.min, Math.max
MathMin(a, b) == IF RLt(b, a) THEN b ELSE a

MathMax(a, b) == IF RGt(b, a) THEN b ELSE a

\* Math.round: the integer nearest to a, ties towards +infinity
MathRound(a) ==
  LET f == a.n \div a.d
      rem == a.n - f * a.d
  IN  IF rem >= a.d - rem THEN f + 1 ELSE f

\* Math.round(a * k) / k
RoundTo(a, k) ==
  LET f == MathFloor(a)
      fraction == [n |-> a.n - f * a.d, d |-> a.d]
  IN  Rat(f * k + MathRound(RMul(fraction, R(k))), k)

\* Number.prototype.toFixed(2), as the number it prints
ToFixed2(a) == RoundTo(a, 100)

\* a is an integer multiple of the positive rational step
IsMultipleOf(a, step) == RDiv(a, step).d = 1

(***************************************************************************)
(* Inputs                                                                  *)
(***************************************************************************)
\* marginSummary.totalMarginUsed is drawn from 0, 4, ..., 4 * MaxUsedSteps
\* dollars
MaxUsedSteps == 2

\* the session ids that getSessionId yields for the callers
SessionIds == {"default-session", "user-1"}

\* userSessions.get(sessionId) of an id the map does not hold
NoSession ==
  [walletAddress |-> [prefix |-> "", hexDigits |-> 0], expiresAt |-> -1]

\* an optional input that was not supplied
Undefined == [n |-> 0, d |-> 0]

\* marginSummary.accountValue, in dollars
AccountValues ==
  {R(4), R(7), R(9), R(10), Rat(10016, 1000), R(49), R(50), R(100), R(499),
   R(500), R(1000)}

UsedMargins == {R(4 * k) : k \in 0..MaxUsedSteps}

EntryPrices == {R(6), R(100), R(50000), R(200000)}

\* the stop loss prices tried with an entry price: 80%, 98%, 100%, 102% and
\* 200% of it
StopLosses(entryPrice) ==
  {RMul(entryPrice, Rat(k, 100)) : k \in {80, 98, 100, 102, 200}}

Leverages == {R(1), R(3), R(20)}

WinRates == {Undefined, R(55), R(65), R(75)}

\* the multiplier 1.0 band of the documented win rate adjustment
BaseWinRate == R(55)

\* meta.universe as the exchange reports it: the listed coins and their
\* szDecimals; "XYZ" is not listed
MetaUniverse == [BTC |-> 5, SOL |-> 2, DOGE |-> 0]

Coins == DOMAIN MetaUniverse \cup {"XYZ"}

Symbols == Coins \cup {"SOL-PERP"}

(***************************************************************************)
(* Helpers of the trading tools                                            *)
(***************************************************************************)
\* symbol.replace('-PERP', '')
getApiCoin(symbol) ==
  IF \E c \in Coins : symbol = c \o "-PERP"
  THEN CHOOSE c \in Coins : symbol = c \o "-PERP"
  ELSE symbol

\* getAccountRiskProfile with <= in place of < at the first threshold
getAccountRiskProfileInclusive(accountBalance) ==
  IF RLe(accountBalance, R(10)) THEN [usagePct |-> 85, riskPct |-> 85]
  ELSE IF RLt(accountBalance, R(50)) THEN [usagePct |-> 50, riskPct |-> 50]
  ELSE IF RLt(accountBalance, R(500)) THEN [usagePct |-> 20, riskPct |-> 20]
  ELSE [usagePct |-> 5, riskPct |-> 2]

\* getAccountRiskProfile with 5000 in place of 500 at the last threshold
getAccountRiskProfileWideMedium(accountBalance) ==
  IF RLt(accountBalance, R(10)) THEN [usagePct |-> 85, riskPct |-> 85]
  ELSE IF RLt(accountBalance, R(50)) THEN [usagePct |-> 50, riskPct |-> 50]
  ELSE IF RLt(accountBalance, R(5000)) THEN [usagePct |-> 20, riskPct |-> 20]
  ELSE [usagePct |-> 5, riskPct |-> 2]

\* getAccountRiskProfile with the whole margin for the micro accounts
getAccountRiskProfileAllIn(accountBalance) ==
  IF RLt(accountBalance, R(10)) THEN [usagePct |-> 100, riskPct |-> 85]
  ELSE IF RLt(accountBalance, R(50)) THEN [usagePct |-> 50, riskPct |-> 50]
  ELSE IF RLt(accountBalance, R(500)) THEN [usagePct |-> 20, riskPct |-> 20]
  ELSE [usagePct |-> 5, riskPct |-> 2]

getAccountRiskProfile(accountBalance) ==
  IF RLt(accountBalance, R(10)) THEN [usagePct |-> 85, riskPct |-> 85]
  ELSE IF RLt(accountBalance, R(50)) THEN [usagePct |-> 50, riskPct |-> 50]
  ELSE IF RLt(accountBalance, R(500)) THEN [usagePct |-> 20, riskPct |-> 20]
  ELSE [usagePct |-> 5, riskPct |-> 2]

RECURSIVE Pow10(_)
Pow10(k) == IF k = 0 THEN 1 ELSE 10 * Pow10(k - 1)

DefaultLotSize == Rat(1, 10000)

\* the lotSize field of getAssetSpecs
getAssetSpecsLotSize(symbol) ==
  LET coin == getApiCoin(symbol)
  IN  IF coin \notin DOMAIN MetaUniverse THEN DefaultLotSize
      ELSE IF MetaUniverse[coin] > 0 THEN Rat(1, Pow10(MetaUniverse[coin]))
      ELSE DefaultLotSize

\* roundToLotSize with size * lotSize / lotSize in place of
\* size / lotSize * lotSize
roundToLotSizeInverted(size, lotSize) ==
  IF RLe(lotSize, R(0)) THEN size
  ELSE RDiv(R(MathRound(RMul(size, lotSize))), lotSize)

roundToLotSize(size, lotSize) ==
  IF RLe(lotSize, R(0)) THEN size
  ELSE RMul(R(MathRound(RDiv(size, lotSize))), lotSize)

roundToTickSize(price, tickSize) ==
  IF RLe(tickSize, R(0)) THEN price
  ELSE RMul(R(MathRound(RDiv(price, tickSize))), tickSize)

\* the values and increments tried with the two rounding helpers
RoundedValues ==
  {R(0), Rat(49, 10000), Rat(17, 1000), Rat(12345, 100000), Rat(1, 3),
   Rat(3, 2), Rat(5, 2), R(7), Rat(-5, 2), Rat(-17, 1000), Rat(123457, 10),
   Rat(99999, 100000)}

RoundingIncrements ==
  {R(0), Rat(-1, 100), Rat(1, 100000), Rat(1, 10000), Rat(1, 1000),
   Rat(1, 100), Rat(1, 2), R(1), R(3), R(10)}

(***************************************************************************)
(* calculatePositionSize                                                   *)
(***************************************************************************)
\* the tool's catch block: every error leaves as
\* "Position size calculation failed: <message>"
SizingFailure(message) ==
  [ok |-> FALSE, error |-> [wrapped |-> "Position size calculation failed",
                            message |-> message]]

AuthRequired == [kind |-> "Authentication required"]

NoAvailableMargin == [kind |-> "No available margin for new positions"]

\* `Position too small. Account needs ~${...} notional. Current max: ${...}`
PositionTooSmall(needs, currentMax) ==
  [kind |-> "Position too small", needs |-> needs, currentMax |-> currentMax]

WarnMargin95 == "Using >95% of available margin"

WarnMicroAccount ==
  "Micro account: Using aggressive position sizing to enable trading"

WarnWideStop == "Very wide stop loss - high risk per trade"

WarnHighLeverage == "Very high leverage increases liquidation risk"

WarnExceedsMargin == "Position exceeds available margin"

\* warnings.push(w) when cond
PushIf(warnings, cond, w) == IF cond THEN Append(warnings, w) ELSE warnings

\* StopLossConstrainedSize without the shrink to the risk cap
StopLossUnconstrainedSize(accountBalance, riskProfile, maxPositionSize, stopDistance) ==
  maxPositionSize

\* StopLossConstrainedSize without the accountBalance >= 10 condition
StopLossConstrainedAnySize(accountBalance, riskProfile, maxPositionSize, stopDistance) ==
  LET maxAcceptableRisk ==
        RMul(accountBalance, Rat(riskProfile.riskPct, 100))
      maxLossAtCurrentSize == RMul(maxPositionSize, stopDistance)
  IN  IF RGt(maxLossAtCurrentSize, maxAcceptableRisk)
      THEN RDiv(maxAcceptableRisk, stopDistance)
      ELSE maxPositionSize

\* finalPositionSize after the stop loss constraint
StopLossConstrainedSize(accountBalance, riskProfile, maxPositionSize, stopDistance) ==
  IF RGe(accountBalance, R(10))
  THEN LET maxAcceptableRisk ==
             RMul(accountBalance, Rat(riskProfile.riskPct, 100))
           maxLossAtCurrentSize == RMul(maxPositionSize, stopDistance)
       IN  IF RGt(maxLossAtCurrentSize, maxAcceptableRisk)
           THEN RDiv(maxAcceptableRisk, stopDistance)
           ELSE maxPositionSize
  ELSE maxPositionSize

MinNotional == R(5)

\* NoMargin with < in place of <=
NoMarginStrict(availableMargin) == RLt(availableMargin, R(0))

\* the test availableMargin <= 0 that throws "No available margin"
NoMargin(availableMargin) == RLe(availableMargin, R(0))

\* the throw of the minimum size check
BelowMinimumSize(finalPositionSize, minPositionSize) ==
  RLt(finalPositionSize, minPositionSize)

\* the returned positionSize / recommendedSize
ReportedSize(finalPositionSize) == RoundTo(finalPositionSize, 10000)

\* the part of execute after the margin check and up to the return
SizeWithMargin(accountBalance, availableMargin, entryPrice, stopLoss, leverage, winRate) ==
  LET riskProfile == getAccountRiskProfile(accountBalance)
      usableMargin == RMul(availableMargin, Rat(riskProfile.usagePct, 100))
      maxNotional == RMul(usableMargin, leverage)
      maxPositionSize == RDiv(maxNotional, entryPrice)
      stopDistance == MathAbs(RSub(entryPrice, stopLoss))
      stopDistancePercent == RMul(RDiv(stopDistance, entryPrice), R(100))
      sized == StopLossConstrainedSize(accountBalance, riskProfile,
                                       maxPositionSize, stopDistance)
      minPositionSize == RDiv(MinNotional, entryPrice)
  IN  IF BelowMinimumSize(sized, minPositionSize)
      THEN SizingFailure(PositionTooSmall(
             ToFixed2(RMul(minPositionSize, entryPrice)),
             ToFixed2(RMul(sized, entryPrice))))
      ELSE
        LET finalNotional == RMul(sized, entryPrice)
            finalMarginRequired == RDiv(finalNotional, leverage)
            finalMaxLoss == RMul(sized, stopDistance)
            exceeds == RGt(finalMarginRequired, availableMargin)
            w1 == PushIf(<<>>,
                    RGt(finalMarginRequired,
                        RMul(availableMargin, Rat(95, 100))),
                    WarnMargin95)
            w2 == PushIf(w1, RLt(accountBalance, R(10)), WarnMicroAccount)
            w3 == PushIf(w2, RGt(stopDistancePercent, R(10)), WarnWideStop)
            w4 == PushIf(w3, RGt(leverage, R(15)), WarnHighLeverage)
            warnings == PushIf(w4, exceeds, WarnExceedsMargin)
            finalPositionSize ==
              IF exceeds
              THEN RDiv(RMul(availableMargin, leverage), entryPrice)
              ELSE sized
        IN  [ok |-> TRUE,
             positionSize |-> ReportedSize(finalPositionSize),
             notionalValue |-> RoundTo(finalNotional, 100),
             marginRequired |-> RoundTo(finalMarginRequired, 100),
             riskAmount |-> RoundTo(finalMaxLoss, 100),
             maxLoss |-> RoundTo(finalMaxLoss, 100),
             recommendedSize |-> ReportedSize(finalPositionSize),
             warnings |-> warnings,
             riskMetrics |->
               [stopDistance |-> RoundTo(stopDistancePercent, 100),
                riskRatio |-> RoundTo(RDiv(finalMaxLoss, accountBalance),
                                      10000),
                leverageRisk |-> IF RLe(leverage, R(3)) THEN "LOW"
                                 ELSE IF RLe(leverage, R(7)) THEN "MEDIUM"
                                 ELSE "HIGH",
                winRateAdjustment |->
                  IF winRate # Undefined /\ winRate.n # 0
                  THEN RoundTo(RDiv(winRate, R(60)), 100)
                  ELSE R(100),
                dynamicRiskUsed |-> riskProfile.usagePct]]

\* execute of the calculate-position-size tool.  hasClient: whether
\* getAuthenticatedClient finds a live session for the caller;
\* accountValue, totalMarginUsed: the marginSummary the exchange returns.
calculatePositionSize(hasClient, accountValue, totalMarginUsed, entryPrice, stopLoss, leverage, winRate) ==
  IF ~hasClient THEN SizingFailure(AuthRequired)
  ELSE
    LET accountBalance == accountValue
        usedMargin == totalMarginUsed
        availableMargin == RSub(accountBalance, usedMargin)
    IN  IF NoMargin(availableMargin) THEN SizingFailure(NoAvailableMargin)
        ELSE SizeWithMargin(accountBalance, availableMargin, entryPrice,
                            stopLoss, leverage, winRate)

(***************************************************************************)
(* calculateAdvancedOpportunityScore and analyzeSetup                      *)
(***************************************************************************)
\* the metrics and the Fear & Greed index the scans feed to the scorer and
\* the classifier
MetricWinRates ==
  {R(0), R(50), R(55), Rat(111, 2), R(60), R(61), R(65), R(66), R(70),
   R(71), R(74), R(100)}

MetricRsis == {R(25), R(30), R(35), R(45), R(50), R(51), R(66), R(70), R(72)}

MetricChanges == {R(-7), R(-6), R(-5), R(0), Rat(11, 2), R(6), R(7)}

FearGreedIndexes == {R(20), R(29), R(39), R(40), R(60), R(65), R(80)}

\* the win rates tried with the scorer
ScoredWinRates == {R(0), Rat(111, 2), R(74), R(100)}

MetricSharpes == {R(-3), R(-2), Rat(-1, 2), R(2), R(3)}

MetricVolumes == {R(0), R(500000), R(20000000)}

MetricDrawdowns == {R(50), R(51)}

\* MomentumScore with >= in place of > in the test of the 24h change
MomentumScoreInclusive(rsi, change24h) ==
  LET m0 == R(50)
      m1 == IF RGt(rsi, R(70)) THEN RAdd(m0, R(15))
            ELSE IF RLt(rsi, R(30)) THEN RAdd(m0, R(20))
            ELSE IF RGt(rsi, R(45)) /\ RLt(rsi, R(55)) THEN RSub(m0, R(10))
            ELSE m0
  IN  IF RGe(MathAbs(change24h), R(5)) THEN RAdd(m1, R(15)) ELSE m1

\* momentumScore before Math.min(100, momentumScore)
MomentumScore(rsi, change24h) ==
  LET m0 == R(50)
      m1 == IF RGt(rsi, R(70)) THEN RAdd(m0, R(15))
            ELSE IF RLt(rsi, R(30)) THEN RAdd(m0, R(20))
            ELSE IF RGt(rsi, R(45)) /\ RLt(rsi, R(55)) THEN RSub(m0, R(10))
            ELSE m0
  IN  IF RGt(MathAbs(change24h), R(5)) THEN RAdd(m1, R(15)) ELSE m1

SentimentScore(rsi, fearGreedIndex) ==
  IF RGt(fearGreedIndex, R(75)) /\ RGt(rsi, R(65)) THEN R(80)
  ELSE IF RLt(fearGreedIndex, R(25)) /\ RLt(rsi, R(35)) THEN R(70)
  ELSE IF RGt(MathAbs(RSub(fearGreedIndex, R(50))), R(20)) THEN R(30)
  ELSE R(0)

\* WinRateScore as the share of losing intervals
WinRateScoreOfLosses(winRate) == RSub(R(100), MathMin(winRate, R(100)))

\* winRateScore
WinRateScore(winRate) == MathMin(winRate, R(100))

calculateAdvancedOpportunityScore(data, fearGreedIndex) ==
  LET winRateScore == WinRateScore(data.winRate)
      s1 == RAdd(R(0), RMul(winRateScore, Rat(4, 10)))
      sharpeScore ==
        MathMax(R(0), MathMin(R(100),
                              RMul(RAdd(data.sharpeRatio, R(2)), R(25))))
      s2 == RAdd(s1, RMul(sharpeScore, Rat(2, 10)))
      momentumScore == MomentumScore(data.rsi, data.change24h)
      s3 == RAdd(s2, RMul(MathMin(R(100), momentumScore), Rat(2, 10)))
      volumeScore ==
        MathMin(R(100), RMul(RDiv(data.volume24h, R(1000000)), R(10)))
      s4 == RAdd(s3, RMul(volumeScore, Rat(1, 10)))
      sentimentScore == SentimentScore(data.rsi, fearGreedIndex)
      s5 == RAdd(s4, RMul(sentimentScore, Rat(1, 10)))
      score == IF RGt(data.maxDrawdown, R(50)) THEN RMul(s5, Rat(8, 10))
               ELSE s5
  IN  MathMax(R(0), MathMin(R(100), score))

\* analyzeSetup with the "Consistent Performer" rule tested first, which
\* leaves the three rules after it unreachable
analyzeSetupReordered(rsi, change24h, fearGreedIndex, winRate) ==
  IF RGt(winRate, R(55))
  THEN [type |-> "Consistent Performer",
        direction |-> IF RGt(rsi, R(50)) THEN "LONG" ELSE "SHORT",
        confidence |-> 65]
  ELSE [type |-> "Low Probability Setup", direction |-> "NEUTRAL",
        confidence |-> 40]

analyzeSetup(rsi, change24h, fearGreedIndex, winRate) ==
  IF RGt(winRate, R(70)) /\ RGt(rsi, R(70)) /\ RGt(fearGreedIndex, R(60))
  THEN [type |-> "High Win Rate Bearish Reversal", direction |-> "SHORT",
        confidence |-> 85]
  ELSE IF RGt(winRate, R(65)) /\ RLt(rsi, R(30))
          /\ RLt(fearGreedIndex, R(40))
  THEN [type |-> "High Win Rate Bullish Reversal", direction |-> "LONG",
        confidence |-> 80]
  ELSE IF RGt(winRate, R(60)) /\ RGt(MathAbs(change24h), R(6))
  THEN [type |-> "High Win Rate Momentum",
        direction |-> IF RGt(change24h, R(0)) THEN "LONG" ELSE "SHORT",
        confidence |-> 75]
  ELSE IF RGt(winRate, R(55))
  THEN [type |-> "Consistent Performer",
        direction |-> IF RGt(rsi, R(50)) THEN "LONG" ELSE "SHORT",
        confidence |-> 65]
  ELSE [type |-> "Low Probability Setup", direction |-> "NEUTRAL",
        confidence |-> 40]

(***************************************************************************)
(* calculateTechnicalIndicators and calculateWinningMetrics                *)
(*                                                                         *)
(* Math.sqrt has no exact rational value.  A number base + coef * sqrt(q)  *)
(* is the record Surd(base, coef, q), the Sharpe ratio num / sqrt(q) is    *)
(* the record OverSqrt(num, q), and the exponential average, whose         *)
(* denominator 21^n exceeds the integers of the checker, is the record     *)
(* Ema(seed, closes) of its recurrence.                                    *)
(***************************************************************************)
\* the candle series the exchange delivers for the indicators: CandleLengths
\* candles whose closes follow one of CandleShapes between the level base
\* and the level base * 5/4
CandleLengths == {0, 1, 15, 19, 20, 21, 25, 26, 27, 29, 30, 31}

CandleBases == {80, 100}

CandleShapes ==
  {"flat", "stairsUp", "stairsDown", "zigzag", "dipThenUp", "lastDrop"}

CloseOfShape(shape, j, n, base) ==
  LET up == (base * 5) \div 4
  IN  CASE shape = "flat" -> base
        [] shape = "stairsUp" -> IF j < n - 7 THEN base ELSE up
        [] shape = "stairsDown" -> IF j < n - 7 THEN up ELSE base
        [] shape = "zigzag" -> IF j % 2 = 0 THEN base ELSE up
        [] shape = "dipThenUp" ->
             IF j = 0 THEN up ELSE IF j < n - 7 THEN base ELSE up
        [] shape = "lastDrop" -> IF j = n - 1 THEN base ELSE up

IndicatorCandles(n, base, shape) ==
  IF n = 0 THEN <<>>
  ELSE [i \in 1..n |->
          LET c == CloseOfShape(shape, i - 1, n, base)
          IN  [c |-> R(c), h |-> R(c + 2), l |-> R(c - 2), v |-> R(10)]]

\* candles.map(c => c.c)
Closes(candles) == [i \in 1..Len(candles) |-> candles[i].c]

\* s.slice(-k)
SliceLast(s, k) ==
  IF Len(s) <= k THEN s ELSE SubSeq(s, Len(s) - k + 1, Len(s))

\* s[lo] + ... + s[hi], added by halves (the sum of exact numbers does not
\* depend on the order)
RECURSIVE SumBetween(_, _, _)
SumBetween(s, lo, hi) ==
  IF lo > hi THEN R(0)
  ELSE IF lo = hi THEN s[lo]
  ELSE LET mid == (lo + hi) \div 2
       IN  RAdd(SumBetween(s, lo, mid), SumBetween(s, mid + 1, hi))

\* s.reduce((a, b) => a + b, 0)
Sum(s) == SumBetween(s, 1, Len(s))

\* Math.max(...values), Math.min(...values)
MaxOf(values) == CHOOSE x \in values : \A y \in values : RLe(y, x)

MinOf(values) == CHOOSE x \in values : \A y \in values : RLe(x, y)

\* Math.pow(x, 2)
Square(x) == RMul(x, x)

\* base + coef * Math.sqrt(radicand)
Surd(base, coef, radicand) ==
  IF radicand = R(0) THEN [base |-> base, coef |-> R(0), radicand |-> R(0)]
  ELSE [base |-> base, coef |-> coef, radicand |-> radicand]

\* num / Math.sqrt(radicand)
OverSqrt(num, radicand) ==
  IF num = R(0) THEN [num |-> R(0), radicand |-> R(1)]
  ELSE [num |-> num, radicand |-> radicand]

\* the value of ema after the loop: seed, then
\* ema = closes[i] * multiplier + ema * (1 - multiplier) for each close
Ema(seed, closes) ==
  [seed |-> seed, multiplier |-> Rat(2, 20 + 1), closes |-> closes]

Gains(closes) ==
  [i \in 1..(Len(closes) - 1) |->
     LET change == RSub(closes[i + 1], closes[i])
     IN  IF RGt(change, R(0)) THEN change ELSE R(0)]

Losses(closes) ==
  [i \in 1..(Len(closes) - 1) |->
     LET change == RSub(closes[i + 1], closes[i])
     IN  IF RLt(change, R(0)) THEN MathAbs(change) ELSE R(0)]

\* rsi
Rsi(closes) ==
  LET period == 14
      avgGain == RDiv(Sum(SliceLast(Gains(closes), period)), R(period))
      avgLoss == RDiv(Sum(SliceLast(Losses(closes), period)), R(period))
      rs == IF avgLoss = R(0) THEN R(100) ELSE RDiv(avgGain, avgLoss)
  IN  RSub(R(100), RDiv(R(100), RAdd(R(1), rs)))

\* macd
Macd(closes) ==
  LET ema12 == RDiv(Sum(SliceLast(closes, 12)), R(12))
      ema26 == RDiv(Sum(SliceLast(closes, 26)), R(26))
      macd == RSub(ema12, ema26)
      signal == macd
      histogram == RSub(macd, signal)
  IN  [macd |-> macd, signal |-> signal, histogram |-> histogram]

\* candles[candles.length - 1]?.c || 0
LastCloseOrZero(candles) ==
  IF Len(candles) = 0 THEN R(0) ELSE candles[Len(candles)].c

\* TooFewForIndicators with 19 in place of 20
TooFewForIndicatorsShort(candles) == Len(candles) < 19

\* candles.length < 20
TooFewForIndicators(candles) == Len(candles) < 20

calculateTechnicalIndicators(candles) ==
  IF TooFewForIndicators(candles)
  THEN [rsi |-> R(50),
        sma |-> LastCloseOrZero(candles),
        ema |-> Ema(LastCloseOrZero(candles), <<>>),
        bollinger |-> [upper |-> Surd(R(0), R(0), R(0)), middle |-> R(0),
                       lower |-> Surd(R(0), R(0), R(0))],
        macd |-> [macd |-> R(0), signal |-> R(0), histogram |-> R(0)]]
  ELSE
    LET closes == Closes(candles)
        last20 == SliceLast(closes, 20)
        sma == RDiv(Sum(last20), R(20))
        variance ==
          RDiv(Sum([i \in 1..Len(last20) |-> Square(RSub(last20[i], sma))]),
               R(20))
    IN  [rsi |-> Rsi(closes),
         sma |-> sma,
         ema |-> Ema(closes[1], Tail(closes)),
         bollinger |-> [upper |-> Surd(sma, R(2), variance), middle |-> sma,
                        lower |-> Surd(sma, R(-2), variance)],
         macd |-> Macd(closes)]

\* peak when the pass is at candle k: the largest close so far
PeakAt(candles, k) == MaxOf({candles[i].c : i \in 1..k})

\* maxDrawdown after the pass: the largest (peak - c) / peak, at least 0
MaxDrawdownOfPass(candles) ==
  MaxOf({R(0)} \cup
        {RDiv(RSub(PeakAt(candles, k), candles[k].c), PeakAt(candles, k)) :
           k \in 1..Len(candles)})

calculateWinningMetrics(candles) ==
  IF Len(candles) < 30
  THEN [winRate |-> R(50), sharpeRatio |-> OverSqrt(R(0), R(1)),
        maxDrawdown |-> R(0), avgVolatility |-> R(0)]
  ELSE
    LET count == Len(candles) - 1
        returns ==
          [i \in 1..count |->
             RDiv(RSub(candles[i + 1].c, candles[i].c), candles[i].c)]
        volatilities ==
          [i \in 1..count |->
             RDiv(MathAbs(RSub(candles[i + 1].h, candles[i + 1].l)),
                  candles[i + 1].c)]
        winningReturns == {i \in 1..count : RGt(returns[i], R(0))}
        winRate == RMul(Rat(Cardinality(winningReturns), count), R(100))
        avgReturn == RDiv(Sum(returns), R(count))
        variance ==
          RDiv(Sum([i \in 1..count |-> Square(RSub(returns[i], avgReturn))]),
               R(count))
        sharpeRatio == IF variance = R(0) THEN OverSqrt(R(0), R(1))
                       ELSE OverSqrt(avgReturn, variance)
        maxDrawdown == MaxDrawdownOfPass(candles)
        avgVolatility == RDiv(Sum(volatilities), R(count))
    IN  [winRate |-> winRate, sharpeRatio |-> sharpeRatio,
         maxDrawdown |-> RMul(maxDrawdown, R(100)),
         avgVolatility |-> RMul(avgVolatility, R(100))]

(***************************************************************************)
(* identifyRealPatterns and recognizePatterns                              *)
(***************************************************************************)
\* the charts the exchange delivers for the pattern scan: n hourly candles
\* with close 100, high 102, low 98 and volume 10, except a bump x1 of the
\* high of candle 15 and x2 of candle 30, a dip y1 of the low of candle 20
\* and y2 of candle 35, the close cp of the last candle (whose high and low
\* enclose it) and the volume vr of the last five candles
Charts ==
  [n : {49, 50, 51, 60}, x1 : {0, 4}, x2 : {0, 4, 5, 8}, y1 : {0, 6},
   y2 : {0, 2, 6}, cp : {90, 97, 99, 100, 108}, vr : {5, 10, 20}]

ChartCandles(k) ==
  [i \in 1..k.n |->
     LET j == i - 1
         last == j = k.n - 1
     IN  [c |-> IF last THEN R(k.cp) ELSE R(100),
          h |-> IF last THEN (IF k.cp > 102 THEN R(k.cp) ELSE R(102))
                ELSE IF j = 15 THEN R(102 + k.x1)
                ELSE IF j = 30 THEN R(102 + k.x2)
                ELSE R(102),
          l |-> IF last THEN (IF k.cp < 98 THEN R(k.cp) ELSE R(98))
                ELSE IF j = 20 THEN R(98 - k.y1)
                ELSE IF j = 35 THEN R(98 - k.y2)
                ELSE R(98),
          v |-> IF j >= k.n - 5 THEN R(k.vr) ELSE R(10)]]

\* quiet charts of n candles around a close of 100 with highs and lows w
\* away and the last close cp, where the last candle either encloses its
\* close or is delivered with the high and low of the others (high below
\* close, not a well-formed candle); vr: the volume of the last five
FlagCharts ==
  [n : {50, 51}, w : {0, 1}, cp : {103, 106}, last : {"enclosing", "stale"},
   vr : {10, 20}]

FlagCandles(k) ==
  [i \in 1..k.n |->
     LET last == i = k.n
         enclosing == last /\ k.last = "enclosing"
     IN  [c |-> IF last THEN R(k.cp) ELSE R(100),
          h |-> IF enclosing THEN R(k.cp) ELSE R(100 + k.w),
          l |-> R(100 - k.w),
          v |-> IF i > k.n - 5 THEN R(k.vr) ELSE R(10)]]

\* the candles given to identifyRealPatterns
ScannedCandles ==
  {ChartCandles(k) : k \in Charts} \cup {FlagCandles(k) : k \in FlagCharts}

\* s[i] of JavaScript, whose indices start at 0
At(s, i) == s[i + 1]

Highs(candles) == [i \in 1..Len(candles) |-> candles[i].h]

Lows(candles) == [i \in 1..Len(candles) |-> candles[i].l]

Volumes(candles) == [i \in 1..Len(candles) |-> candles[i].v]

\* the elements of the sequence s as a set
Elements(s) == {s[i] : i \in 1..Len(s)}

\* IsHigh with >= in place of >
IsHighInclusive(highs, i) ==
  /\ RGe(At(highs, i), At(highs, i - 5))
  /\ RGe(At(highs, i), At(highs, i + 5))

\* isHigh
IsHigh(highs, i) ==
  /\ RGt(At(highs, i), At(highs, i - 5))
  /\ RGt(At(highs, i), At(highs, i + 5))

\* isLow
IsLow(lows, i) ==
  /\ RLt(At(lows, i), At(lows, i - 5))
  /\ RLt(At(lows, i), At(lows, i + 5))

\* the points {index, price} pushed by the loop for the indices of the set
\* indices, in ascending order of the index
PointsAt(indices, prices) ==
  [k \in 1..Cardinality(indices) |->
     LET i == CHOOSE i \in indices :
                Cardinality({j \in indices : j < i}) = k - 1
     IN  [index |-> i, price |-> At(prices, i)]]

\* highPoints, lowPoints
HighPoints(highs) ==
  PointsAt({i \in 10..(Len(highs) - 11) : IsHigh(highs, i)}, highs)

LowPoints(lows) ==
  PointsAt({i \in 10..(Len(lows) - 11) : IsLow(lows, i)}, lows)

\* (b.price - a.price) / (b.index - a.index)
Slope(a, b) == RDiv(RSub(b.price, a.price), R(b.index - a.index))

RisingWedge(currentPrice) ==
  [pattern |-> "RISING WEDGE", timeframe |-> "1h", confidence |-> 78,
   signal |-> "bearish",
   description |->
     "Rising wedge with volume decline - bearish breakdown expected",
   entry |-> RMul(currentPrice, Rat(998, 1000)),
   target |-> RMul(currentPrice, Rat(92, 100)),
   stopLoss |-> RMul(currentPrice, Rat(1025, 1000))]

DoubleTop(currentPrice) ==
  [pattern |-> "DOUBLE TOP", timeframe |-> "1h", confidence |-> 72,
   signal |-> "bearish",
   description |->
     "Double top formation with rejection - bearish reversal signal",
   entry |-> RMul(currentPrice, Rat(997, 1000)),
   target |-> RMul(currentPrice, Rat(90, 100)),
   stopLoss |-> RMul(currentPrice, Rat(103, 100))]

\* BullishFlag with a confidence of 71
BullishFlagConfident(currentPrice) ==
  [pattern |-> "BULLISH FLAG", timeframe |-> "1h", confidence |-> 71,
   signal |-> "bullish",
   description |->
     "Bullish flag consolidation with volume - continuation expected",
   entry |-> RMul(currentPrice, Rat(1002, 1000)),
   target |-> RMul(currentPrice, Rat(112, 100)),
   stopLoss |-> RMul(currentPrice, Rat(975, 1000))]

BullishFlag(currentPrice) ==
  [pattern |-> "BULLISH FLAG", timeframe |-> "1h", confidence |-> 69,
   signal |-> "bullish",
   description |->
     "Bullish flag consolidation with volume - continuation expected",
   entry |-> RMul(currentPrice, Rat(1002, 1000)),
   target |-> RMul(currentPrice, Rat(112, 100)),
   stopLoss |-> RMul(currentPrice, Rat(975, 1000))]

DescendingTriangle(currentPrice) ==
  [pattern |-> "DESCENDING TRIANGLE", timeframe |-> "1h", confidence |-> 75,
   signal |-> "bearish",
   description |->
     "Descending triangle with horizontal support - breakdown likely",
   entry |-> RMul(currentPrice, Rat(998, 1000)),
   target |-> RMul(currentPrice, Rat(88, 100)),
   stopLoss |-> RMul(currentPrice, Rat(103, 100))]

\* Consolidating with a range of 6% in place of 4%
ConsolidatingWide(recentHigh, recentLow, currentPrice) ==
  RLt(RDiv(RSub(recentHigh, recentLow), currentPrice), Rat(6, 100))

\* consolidation: the range of the last 20 candles is below 4% of the price
Consolidating(recentHigh, recentLow, currentPrice) ==
  RLt(RDiv(RSub(recentHigh, recentLow), currentPrice), Rat(4, 100))

identifyRealPatterns(candles) ==
  IF Len(candles) < 50 THEN <<>>
  ELSE
    LET closes == Closes(candles)
        highs == Highs(candles)
        lows == Lows(candles)
        volumes == Volumes(candles)
        currentPrice == closes[Len(closes)]
        recentHigh == MaxOf(Elements(SliceLast(highs, 20)))
        recentLow == MinOf(Elements(SliceLast(lows, 20)))
        avgVolume == RDiv(Sum(SliceLast(volumes, 20)), R(20))
        recentVolume == RDiv(Sum(SliceLast(volumes, 5)), R(5))
        highPoints == HighPoints(highs)
        lowPoints == LowPoints(lows)
        recentHighs == SliceLast(highPoints, 2)
        recentLows == SliceLast(lowPoints, 2)
        wedge ==
          /\ Len(highPoints) >= 2 /\ Len(lowPoints) >= 2
          /\ LET highSlope == Slope(recentHighs[1], recentHighs[2])
                 lowSlope == Slope(recentLows[1], recentLows[2])
             IN  /\ RGt(highSlope, R(0))
                 /\ RGt(lowSlope, R(0))
                 /\ RGt(lowSlope, highSlope)
                 /\ RLt(recentVolume, RMul(avgVolume, Rat(8, 10)))
        doubleTop ==
          /\ Len(highPoints) >= 2
          /\ LET lastTwo == SliceLast(highPoints, 2)
                 priceDiff ==
                   RDiv(MathAbs(RSub(lastTwo[2].price, lastTwo[1].price)),
                        lastTwo[1].price)
             IN  /\ RLt(priceDiff, Rat(2, 100))
                 /\ RLt(currentPrice, RMul(recentHigh, Rat(95, 100)))
        longMA == RDiv(Sum(SliceLast(closes, 20)), R(20))
        priceAboveMA == RGt(currentPrice, RMul(longMA, Rat(105, 100)))
        consolidation == Consolidating(recentHigh, recentLow, currentPrice)
        flag ==
          priceAboveMA /\ consolidation /\ RGt(recentVolume, avgVolume)
        resistanceLevel == recentHigh
        last10 == SliceLast(lows, 10)
        supportTests ==
          Cardinality({i \in 1..Len(last10) :
                         RLt(RDiv(MathAbs(RSub(last10[i], recentLow)),
                                  recentLow), Rat(1, 100))})
        triangle ==
          /\ supportTests >= 2
          /\ RLt(currentPrice, RMul(resistanceLevel, Rat(98, 100)))
        patterns1 == PushIf(<<>>, wedge, RisingWedge(currentPrice))
        patterns2 == PushIf(patterns1, doubleTop, DoubleTop(currentPrice))
        patterns3 == PushIf(patterns2, flag, BullishFlag(currentPrice))
    IN  PushIf(patterns3, triangle, DescendingTriangle(currentPrice))

\* the timeframes asked of recognizePatterns
TimeframeLists == {<<"1h">>, <<"1h", "4h">>}

\* p => ({ ...p, timeframe })
WithTimeframe(patterns, timeframe) ==
  [i \in 1..Len(patterns) |-> [patterns[i] EXCEPT !.timeframe = timeframe]]

\* what the second timeframe of a scan delivers: too few candles, a chart
\* with a descending triangle, or a chart with a bullish flag
SecondSeries ==
  {ChartCandles([n |-> 49, x1 |-> 0, x2 |-> 0, y1 |-> 0, y2 |-> 0,
                 cp |-> 100, vr |-> 10]),
   ChartCandles([n |-> 51, x1 |-> 0, x2 |-> 0, y1 |-> 0, y2 |-> 0,
                 cp |-> 99, vr |-> 5]),
   FlagCandles([n |-> 51, w |-> 0, cp |-> 106, last |-> "stale",
                vr |-> 20])}

\* the patterns pushed for the first k timeframes, the k-th of which
\* delivers candles[k]
RECURSIVE PatternsOfTimeframes(_, _, _)
PatternsOfTimeframes(timeframes, candles, k) ==
  IF k = 0 THEN <<>>
  ELSE PatternsOfTimeframes(timeframes, candles, k - 1) \o
       (IF Len(candles[k]) > 50
        THEN WithTimeframe(identifyRealPatterns(candles[k]), timeframes[k])
        ELSE <<>>)

RecognitionFailure(message) ==
  [ok |-> FALSE,
   error |-> [wrapped |-> "Pattern recognition failed", message |-> message]]

\* the confidences of the patterns with the given signal
ConfidencesOf(patterns, signal) ==
  LET selected == SelectSeq(patterns, LAMBDA p : p.signal = signal)
  IN  [i \in 1..Len(selected) |-> R(selected[i].confidence)]

\* the counts, the average confidences and the overall signal of the
\* patterns found
SignalsOfPatterns(patterns) ==
  LET bearish == ConfidencesOf(patterns, "bearish")
      bullish == ConfidencesOf(patterns, "bullish")
      neutral == ConfidencesOf(patterns, "neutral")
      bearishCount == Len(bearish)
      bullishCount == Len(bullish)
      neutralCount == Len(neutral)
      avgBearishConfidence ==
        IF bearishCount > 0 THEN RDiv(Sum(bearish), R(bearishCount))
        ELSE R(0)
      avgBullishConfidence ==
        IF bullishCount > 0 THEN RDiv(Sum(bullish), R(bullishCount))
        ELSE R(0)
      overallSignal ==
        IF bearishCount >= 2 /\ RGt(avgBearishConfidence, R(70))
          THEN "strong_bearish"
        ELSE IF bearishCount >= 1 /\ RGt(avgBearishConfidence, R(60))
          THEN "bearish"
        ELSE IF bullishCount >= 2 /\ RGt(avgBullishConfidence, R(70))
          THEN "strong_bullish"
        ELSE IF bullishCount >= 1 /\ RGt(avgBullishConfidence, R(60))
          THEN "bullish"
        ELSE "neutral"
  IN  [ok |-> TRUE, patterns |-> patterns, overallSignal |-> overallSignal,
       patternCount |-> [bearish |-> bearishCount,
                         bullish |-> bullishCount,
                         neutral |-> neutralCount]]

recognizePatterns(currentPrice, timeframes, candles) ==
  IF currentPrice = R(0) THEN RecognitionFailure("Unable to fetch price")
  ELSE SignalsOfPatterns(
         PatternsOfTimeframes(timeframes, candles, Len(timeframes)))

(***************************************************************************)
(* The price lookup of the tools that need a current price                 *)
(***************************************************************************)
\* the tools that call getPriceFromAllMids
PricedTools ==
  {"recognizePatterns", "generateRecommendation", "executeTrade",
   "analyzeMarkets", "findTopOpportunities", "monitorPositions"}

\* the symbols whose price is looked up: the symbol of the call for the
\* tools that take one symbol (the first one), the symbols scanned or the
\* symbols of the open positions for the others
PricedSymbols == <<"BTC", "SOL">>

\* what getPriceFromAllMids returns: 0 when the price is unavailable
LookedUpPrices == {R(0), R(99), R(50000)}

\* context.price of executeTrade (0: not given) and the liquidationPrice of
\* the positions of monitorPositions (0: none)
GivenPrices == {R(0), R(100)}

LiquidationPrices == {R(0), R(95)}

PriceFailure(wrapped, message) ==
  [failed |-> TRUE, error |-> [wrapped |-> wrapped, message |-> message],
   priced |-> <<>>, skipped |-> <<>>]

\* the tool went on with the symbols of priced and left out those of skipped
PriceSuccess(priced, skipped) ==
  [failed |-> FALSE, error |-> [wrapped |-> "", message |-> ""],
   priced |-> priced, skipped |-> skipped]

\* the symbols, with their price, whose looked up price is not 0
SymbolsWithPrice(prices) ==
  LET found == SelectSeq(<<1, 2>>, LAMBDA i : prices[i] # R(0))
  IN  [k \in 1..Len(found) |->
         [symbol |-> PricedSymbols[found[k]],
          currentPrice |-> prices[found[k]]]]

SymbolsWithoutPrice(prices) ==
  LET missing == SelectSeq(<<1, 2>>, LAMBDA i : prices[i] = R(0))
  IN  [k \in 1..Len(missing) |-> PricedSymbols[missing[k]]]

\* the part of execute of the tool from the price lookup to the first use
\* of the price.  prices[i]: what getPriceFromAllMids returns for
\* PricedSymbols[i]
priceHandling(tool, prices, price, liquidationPrice) ==
  CASE tool = "recognizePatterns" ->
         IF prices[1] = R(0)
         THEN PriceFailure("Pattern recognition failed",
                           "Unable to fetch price")
         ELSE PriceSuccess(<<[symbol |-> PricedSymbols[1],
                              currentPrice |-> prices[1]]>>, <<>>)
    [] tool = "generateRecommendation" ->
         IF prices[1] = R(0)
         THEN PriceFailure("Recommendation failed",
                           "Unable to fetch current price")
         ELSE PriceSuccess(<<[symbol |-> PricedSymbols[1],
                              currentPrice |-> prices[1]]>>, <<>>)
    [] tool = "executeTrade" ->
         LET currentPrice == IF price # R(0) THEN price ELSE prices[1]
         IN  IF currentPrice = R(0)
             THEN PriceFailure("Trade execution failed",
                               "Unable to fetch current price")
             ELSE PriceSuccess(<<[symbol |-> PricedSymbols[1],
                                  currentPrice |-> currentPrice]>>, <<>>)
    [] tool = "analyzeMarkets" ->
         IF Len(SymbolsWithPrice(prices)) = 0
         THEN PriceFailure("Market analysis failed",
                           "No valid asset data found")
         ELSE PriceSuccess(SymbolsWithPrice(prices),
                           SymbolsWithoutPrice(prices))
    [] tool = "findTopOpportunities" ->
         PriceSuccess(SymbolsWithPrice(prices), SymbolsWithoutPrice(prices))
    [] tool = "monitorPositions" ->
         PriceSuccess(
           [i \in 1..2 |->
              [symbol |-> PricedSymbols[i], currentPrice |-> prices[i],
               liquidationAlert |->
                 /\ RGt(liquidationPrice, R(0))
                 /\ prices[i] # R(0)
                 /\ RLt(RMul(RDiv(MathAbs(RSub(prices[i], liquidationPrice)),
                                  prices[i]), R(100)), R(10))]],
           <<>>)

(***************************************************************************)
(* Sessions: authenticateUser, getAuthenticatedClient, checkTradeAuth      *)
(*                                                                         *)
(* Time is Date.now() in milliseconds.  It advances by HalfHour or by one  *)
(* millisecond, up to MaxHalfHours half hours and MaxMillis milliseconds   *)
(* past a half hour.                                                       *)
(***************************************************************************)
MaxHalfHours == 3

MaxMillis == 1

HalfHour == 30 * 60 * 1000

SESSION_TIMEOUT == 60 * 60 * 1000

\* the context of a call: the three ids, "" when absent
Contexts ==
  {[userId |-> "", sessionId |-> "", conversationId |-> ""],
   [userId |-> "user-1", sessionId |-> "", conversationId |-> ""],
   [userId |-> "", sessionId |-> "", conversationId |-> "user-1"]}

getSessionId(context) ==
  IF context.userId # "" THEN context.userId
  ELSE IF context.sessionId # "" THEN context.sessionId
  ELSE IF context.conversationId # "" THEN context.conversationId
  ELSE "default-session"

\* a key or an address of a command: its prefix and the number of hex
\* digits that follow
HexWords == [prefix : {"0x"}, hexDigits : {40, 64}]

\* command.trim().split(/\s+/) of the commands sent: "AUTH" with a key and
\* an address, another verb, or only two parts
Commands ==
  {<<"AUTH", privateKey, walletAddress>> :
     privateKey \in HexWords, walletAddress \in HexWords}
  \cup {<<"login", [prefix |-> "0x", hexDigits |-> 64],
          [prefix |-> "0x", hexDigits |-> 40]>>,
        <<"AUTH", [prefix |-> "0x", hexDigits |-> 64]>>}

toLowerCase(word) == IF word = "AUTH" THEN "auth" ELSE word

\* word.match(/^0x[0-9a-fA-F]{digits}$/)
MatchesHex(word, digits) == word.prefix = "0x" /\ word.hexDigits = digits

\* SessionExpired with <= in place of <
SessionExpiredInclusive(session, time) == session.expiresAt <= time

\* session.expiresAt < Date.now()
SessionExpired(session, time) == session.expiresAt < time

cleanupExpiredSessions(sessions, time) ==
  [s \in SessionIds |->
     IF sessions[s] # NoSession /\ SessionExpired(sessions[s], time)
     THEN NoSession ELSE sessions[s]]

\* whether getAuthenticatedClient returns a client, after its cleanup
HasAuthenticatedClient(sessions, context, time) ==
  LET session == cleanupExpiredSessions(sessions, time)[getSessionId(context)]
  IN  ~(session = NoSession \/ SessionExpired(session, time))

\* the status authenticateUser returns.  reachable: getClearinghouseState
\* answers
authenticationStatus(parts, reachable) ==
  IF toLowerCase(parts[1]) # "auth" \/ Len(parts) # 3 THEN "INVALID_FORMAT"
  ELSE IF ~MatchesHex(parts[2], 64) THEN "INVALID_PRIVATE_KEY"
  ELSE IF ~MatchesHex(parts[3], 40) THEN "INVALID_WALLET_ADDRESS"
  ELSE IF ~reachable THEN "CONNECTION_FAILED"
  ELSE "AUTHENTICATED"

\* the tools that throw without an authenticated client
AuthRequiringTools ==
  {"getAccountInfo", "getPositions", "getTradeHistory",
   "calculatePositionSize", "executeTrade", "closePosition",
   "updateStopLoss"}

AuthenticationRequired ==
  "Authentication required. Use: auth [private-key] [wallet-address]"

(***************************************************************************)
(* The order tools: updateStopLoss, executeTrade, closePosition.  The      *)
(* exchange is given by its answers: each call of a tool draws what the    *)
(* exchange holds before the call and how it answers each request, and    *)
(* the result records the requests made, in order, and what the exchange   *)
(* holds afterwards.                                                       *)
(***************************************************************************)
MaxStops == 2

\* maxLeverage of the listed coins, as meta.universe reports it
MaxLeverageOf == [BTC |-> 50, SOL |-> 20, DOGE |-> 10]

DefaultTickSize == Rat(1, 10000)

\* the tickSize field of getAssetSpecs
getAssetSpecsTickSize(symbol) ==
  LET coin == getApiCoin(symbol)
  IN  IF coin \notin DOMAIN MetaUniverse THEN DefaultTickSize
      ELSE IF MaxLeverageOf[coin] >= 50 THEN Rat(1, 100000)
      ELSE IF MaxLeverageOf[coin] >= 20 THEN Rat(1, 10000)
      ELSE Rat(1, 1000)

TradedSymbols == {"BTC", "SOL-PERP"}

\* szi of the position of a coin: 0 when there is none, negative when short,
\* a multiple of the coin's size step
PositionSizes == {R(0), Rat(5, 100000), Rat(3, 100), R(2), Rat(-3, 1)}

PositionsOf(symbol) ==
  {szi \in PositionSizes :
     IsMultipleOf(szi, Rat(1, Pow10(MetaUniverse[getApiCoin(symbol)])))}

\* the ids of the open stop-loss orders of the symbol, and the id the
\* exchange gives to the next order
StopOrderIds == 1..MaxStops

NewOid == MaxStops + 1

StopPrices == {R(95), Rat(190001, 2000)}

\* how the exchange answers placeOrder: the order rests, status "ok" with an
\* error for the order, another status, or the request throws
PlacementOutcomes == {"resting", "error", "rejected", "throws"}

\* the ids of a set, in ascending order
RECURSIVE Ascending(_)
Ascending(ids) ==
  IF ids = {} THEN <<>>
  ELSE LET least == CHOOSE i \in ids : \A j \in ids : i <= j
       IN  <<least>> \o Ascending(ids \ {least})

CancelCalls(coin, oids) ==
  [i \in 1..Len(oids) |-> [call |-> "cancelOrder", coin |-> coin, o |-> oids[i]]]

\* the requests of updateStopLoss, in the order it makes them
StopLossCalls(cancels, placed) == cancels \o <<placed>>

\* updateStopLoss of an authenticated caller.  szi: the position;
\* stopOrders: the open stop-loss orders of the coin; cancelFailures: the
\* orders whose cancelOrder throws (caught and logged, the loop goes on);
\* placement: the answer to placeOrder
updateStopLoss(symbol, szi, stopOrders, cancelFailures, placement, stopPrice) ==
  LET coin == getApiCoin(symbol)
      positionSide == IF RGt(szi, R(0)) THEN "long" ELSE "short"
      roundedStopPrice == roundToTickSize(stopPrice, getAssetSpecsTickSize(symbol))
      roundedSize == roundToLotSize(MathAbs(szi), getAssetSpecsLotSize(symbol))
      remaining == stopOrders \cap cancelFailures
      placed == [call |-> "placeOrder", coin |-> symbol,
                 is_buy |-> (positionSide = "short"), sz |-> roundedSize,
                 limit_px |-> roundedStopPrice, triggerPx |-> roundedStopPrice,
                 tpsl |-> "sl", reduce_only |-> TRUE]
      calls == StopLossCalls(CancelCalls(coin, Ascending(stopOrders)), placed)
  IN  IF szi = R(0)
      THEN [success |-> FALSE, status |-> "NO_POSITION", calls |-> <<>>,
            openStops |-> stopOrders]
      ELSE IF placement = "throws"
      THEN [success |-> FALSE, status |-> "ERROR", calls |-> calls,
            openStops |-> remaining]
      ELSE IF placement = "resting"
      THEN [success |-> TRUE, status |-> "UPDATED", calls |-> calls,
            openStops |-> remaining \cup {NewOid}]
      ELSE [success |-> FALSE, status |-> "FAILED", calls |-> calls,
            openStops |-> remaining]

(***************************************************************************)
(* monitorPositions: the nested calls of getPositions and getAccountInfo,  *)
(* the portfolio alerts and riskStatus.  The alerts of the single          *)
(* positions (priceHandling) do not enter riskStatus.                      *)
(***************************************************************************)
\* `context: {}`, the context monitorPositions passes to the tools it calls
EmptyContext == [userId |-> "", sessionId |-> "", conversationId |-> ""]

\* account of getAccountInfo: accountValue > 0 and totalMarginUsed
MonitoredAccounts ==
  [accountValue : {R(1000)},
   totalMarginUsed : {R(0), R(400), R(500), R(600), R(700), R(800), R(900),
                      R(950)}]

\* totalUnrealizedPnl of getPositions
UnrealizedPnls ==
  {R(-250), R(-200), R(-150), R(-100), R(-60), R(-50), R(0), R(50), R(60)}

\* context.alertThresholds: the default and another
AlertThresholds ==
  {[pnlPercent |-> R(10), marginRatio |-> R(80)],
   [pnlPercent |-> R(5), marginRatio |-> R(50)]}

\* marginRatio as a fraction, without the * 100
marginRatioFraction(account) == RDiv(account.totalMarginUsed, account.accountValue)

marginRatio(account) ==
  RMul(RDiv(account.totalMarginUsed, account.accountValue), R(100))

HighMarginUsage == [kind |-> "High margin usage"]

LargeUnrealizedLoss == [kind |-> "Large unrealized loss"]

portfolioAlerts(account, totalUnrealizedPnl, alertThresholds) ==
  LET a1 == PushIf(<<>>, RGt(marginRatio(account), alertThresholds.marginRatio),
                   HighMarginUsage)
  IN  PushIf(a1, RLt(totalUnrealizedPnl,
                     RMul(RNeg(account.accountValue), Rat(1, 10))),
             LargeUnrealizedLoss)

riskStatus(account, totalUnrealizedPnl) ==
  LET ratio == marginRatio(account)
      lossBeyond(part) ==
        RLt(totalUnrealizedPnl, RMul(RNeg(account.accountValue), part))
  IN  IF RGt(ratio, R(90)) \/ lossBeyond(Rat(2, 10)) THEN "CRITICAL"
      ELSE IF RGt(ratio, R(70)) \/ lossBeyond(Rat(1, 10)) THEN "HIGH"
      ELSE IF \/ RGt(ratio, R(50))
              \/ RGt(MathAbs(totalUnrealizedPnl),
                     RMul(account.accountValue, Rat(5, 100)))
           THEN "MEDIUM"
      ELSE "LOW"

MonitoringFailure(message, nested) ==
  [ok |-> FALSE,
   error |-> [wrapped |-> "Position monitoring failed", message |-> message],
   nestedSessions |-> nested]

\* monitorPositions.  authenticated: the ids with a live session at the call;
\* nestedSessions: the session ids getPositions and getAccountInfo resolve
\* their context to, in the order of the calls
monitorPositions(context, authenticated, account, totalUnrealizedPnl, alertThresholds) ==
  LET nested == getSessionId(EmptyContext)
  IN  IF nested \notin authenticated
      THEN MonitoringFailure(AuthenticationRequired, <<nested>>)
      ELSE [ok |-> TRUE,
            nestedSessions |-> <<nested, nested>>,
            summary |-> [totalPnl |-> totalUnrealizedPnl,
                         marginUsed |-> account.totalMarginUsed],
            alerts |-> portfolioAlerts(account, totalUnrealizedPnl,
                                       alertThresholds),
            riskStatus |-> riskStatus(account, totalUnrealizedPnl)]

(***************************************************************************)
(* findTopOpportunities.  Array.prototype.sort with a comparator that is   *)
(* not consistent over the elements leaves the order to the                *)
(* implementation: every order is possible then.                           *)
(***************************************************************************)
MaxScanned == 3

\* getEnhancedMarketData of the coins of meta.universe; price 0: no mid price
ScannedMarkets ==
  {[symbol |-> "BTC", price |-> R(100), winRate |-> R(66),
    sharpeRatio |-> Rat(1, 2), rsi |-> R(50), change24h |-> R(0),
    volume24h |-> R(20000000), maxDrawdown |-> R(10)],
   [symbol |-> "ETH", price |-> R(100), winRate |-> R(63),
    sharpeRatio |-> R(2), rsi |-> R(50), change24h |-> R(0),
    volume24h |-> R(20000000), maxDrawdown |-> R(10)],
   [symbol |-> "SOL", price |-> R(100), winRate |-> R(60),
    sharpeRatio |-> R(2), rsi |-> R(72), change24h |-> R(7),
    volume24h |-> R(20000000), maxDrawdown |-> R(10)],
   [symbol |-> "DOGE", price |-> R(100), winRate |-> Rat(74123, 1000),
    sharpeRatio |-> R(2), rsi |-> R(72), change24h |-> R(7),
    volume24h |-> R(500000), maxDrawdown |-> R(10)],
   [symbol |-> "XRP", price |-> R(100), winRate |-> R(50),
    sharpeRatio |-> R(-2), rsi |-> R(50), change24h |-> R(0),
    volume24h |-> R(20000000), maxDrawdown |-> R(10)],
   [symbol |-> "AVAX", price |-> R(0), winRate |-> R(74),
    sharpeRatio |-> R(2), rsi |-> R(72), change24h |-> R(7),
    volume24h |-> R(20000000), maxDrawdown |-> R(10)]}

\* meta.universe: the markets in the order of the exchange
Universes ==
  UNION {{u \in [1..n -> ScannedMarkets] :
            \A i, j \in 1..n : u[i] = u[j] => i = j} : n \in 1..MaxScanned}

ScanLimits == {2, 30}

ScanMinVolumes == {R(0), R(2000000)}

TopCounts == {1, 2, 5}

ScanFearGreedIndexes == {R(60), R(80)}

\* the entry pushed for a market (without its signals)
Opportunity(marketData, fearGreedIndex) ==
  [symbol |-> marketData.symbol,
   score |-> calculateAdvancedOpportunityScore(marketData, fearGreedIndex),
   volume |-> marketData.volume24h,
   winRate |-> RoundTo(marketData.winRate, 100),
   setup |-> analyzeSetup(marketData.rsi, marketData.change24h,
                          fearGreedIndex, marketData.winRate)]

\* the loop over allSymbols: the markets with a price, enough volume and a
\* score above 55
scanOpportunities(allSymbols, minVolume, fearGreedIndex) ==
  LET kept ==
        SelectSeq(allSymbols,
                  LAMBDA m :
                    /\ m.price # R(0)
                    /\ ~RLt(m.volume24h, minVolume)
                    /\ RGt(calculateAdvancedOpportunityScore(m, fearGreedIndex),
                           R(55)))
  IN  [i \in 1..Len(kept) |-> Opportunity(kept[i], fearGreedIndex)]

\* the comparator of the sort: negative when a comes first
compareOpportunities(a, b) ==
  LET winRateDiff == RSub(b.winRate, a.winRate)
  IN  IF RGt(MathAbs(winRateDiff), R(5)) THEN winRateDiff
      ELSE RSub(b.score, a.score)

Orderings(n) == {p \in [1..n -> 1..n] : \A i, j \in 1..n : p[i] = p[j] => i = j}

\* the comparator is a consistent comparator for the elements: < and = are
\* transitive
ConsistentComparator(opps) ==
  \A a, b, c \in Elements(opps) :
    /\ (RLt(compareOpportunities(a, b), R(0))
        /\ RLt(compareOpportunities(b, c), R(0)))
         => RLt(compareOpportunities(a, c), R(0))
    /\ (compareOpportunities(a, b) = R(0) /\ compareOpportunities(b, c) = R(0))
         => compareOpportunities(a, c) = R(0)

\* the stable order of a consistent comparator
IsSorted(opps, p) ==
  \A i, j \in 1..Len(opps) :
    i < j =>
      LET c == compareOpportunities(opps[p[i]], opps[p[j]])
      IN  RLt(c, R(0)) \/ (c = R(0) /\ p[i] < p[j])

\* the orders opportunities.sort(...) can leave
sortOutcomes(opps) ==
  LET perms == IF ConsistentComparator(opps)
               THEN {p \in Orderings(Len(opps)) : IsSorted(opps, p)}
               ELSE Orderings(Len(opps))
  IN  {[i \in 1..Len(opps) |-> opps[p[i]]] : p \in perms}

\* slice(0, count) for count >= 0
SliceFirst(s, count) == SubSeq(s, 1, IF count < Len(s) THEN count ELSE Len(s))

WinRatesOf(opps) == [i \in 1..Len(opps) |-> opps[i].winRate]

\* the result of findTopOpportunities for the sorted opportunities
findTopOpportunities(allSymbols, sorted, topCount) ==
  LET topOpportunities == SliceFirst(sorted, topCount)
      avgWinRate == IF Len(sorted) > 0
                    THEN RDiv(Sum(WinRatesOf(sorted)), R(Len(sorted)))
                    ELSE R(0)
      topWinRate == IF Len(topOpportunities) > 0
                    THEN topOpportunities[1].winRate ELSE R(0)
  IN  [opportunities |-> topOpportunities,
       scanSummary |-> [totalScanned |-> Len(allSymbols),
                        opportunitiesFound |-> Len(sorted),
                        avgWinRate |-> RoundTo(avgWinRate, 100),
                        topWinRate |-> RoundTo(topWinRate, 100)]]

(***************************************************************************)
(* executeTrade and closePosition                                          *)
(***************************************************************************)
\* context.size; context.price and context.leverage, 0 when not given
TradeSizes == {R(0), Rat(5, 100000), Rat(3, 100), R(2), R(-1)}

TradePrices == {R(0), R(100)}

TradeLeverages == {R(0), R(5)}

AvailableMargins == {R(10), R(1000)}

\* what getPriceFromAllMids returns for the symbol
MidPrices == {R(0), R(99)}

\* how the exchange answers the placeOrder of executeTrade
TradeOutcomes == {"filled", "resting", "error", "rejected", "throws"}

TradeRequests ==
  [symbol : TradedSymbols, side : {"buy", "sell"}, size : TradeSizes,
   orderType : {"market", "limit"}, price : TradePrices,
   reduceOnly : BOOLEAN, leverage : TradeLeverages]

TradeFailure(status, calls) ==
  [thrown |-> FALSE, success |-> FALSE, status |-> status, calls |-> calls,
   executedPrice |-> R(0), executedSize |-> R(0)]

\* the updateLeverage request, made when context.leverage is given
LeverageCalls(request) ==
  IF request.leverage # R(0)
  THEN <<[call |-> "updateLeverage", coin |-> request.symbol,
          leverage |-> request.leverage]>>
  ELSE <<>>

\* limit_px of the order request
LimitPrice(request, currentPrice, tickSize) ==
  IF request.orderType = "limit"
  THEN roundToTickSize(request.price, tickSize)
  ELSE roundToTickSize(
         RMul(currentPrice,
              IF request.side = "buy" THEN Rat(1001, 1000)
              ELSE Rat(999, 1000)),
         tickSize)

\* executeTrade.  authenticated: the session of the context is live;
\* metaAvailable: getMeta answers (getAssetSpecs falls back to its defaults
\* otherwise); midPrice: the looked up price; placement: the answer to
\* placeOrder.  calls: the requests made to the exchange, in order
executeTrade(authenticated, request, metaAvailable, availableMargin, midPrice, placement) ==
  LET lotSize == IF metaAvailable THEN getAssetSpecsLotSize(request.symbol)
                 ELSE DefaultLotSize
      tickSize == IF metaAvailable THEN getAssetSpecsTickSize(request.symbol)
                  ELSE DefaultTickSize
      currentPrice == IF request.price # R(0) THEN request.price ELSE midPrice
      roundedSize == roundToLotSize(request.size, lotSize)
      requiredMargin ==
        RDiv(RMul(roundedSize, currentPrice),
             IF request.leverage # R(0) THEN request.leverage ELSE R(1))
      leverageCalls == LeverageCalls(request)
      placed == [call |-> "placeOrder", coin |-> request.symbol,
                 is_buy |-> (request.side = "buy"), sz |-> roundedSize,
                 reduce_only |-> request.reduceOnly,
                 limit_px |-> LimitPrice(request, currentPrice, tickSize),
                 tif |-> IF request.orderType = "limit" THEN "Gtc"
                         ELSE "Ioc"]
      calls == leverageCalls \o <<placed>>
  IN  IF ~authenticated
      THEN [thrown |-> TRUE, success |-> FALSE,
            status |-> AuthenticationRequired, calls |-> <<>>,
            executedPrice |-> R(0), executedSize |-> R(0)]
      ELSE IF currentPrice = R(0) THEN TradeFailure("ERROR", <<>>)
      ELSE IF RLe(roundedSize, R(0)) THEN TradeFailure("ERROR", <<>>)
      ELSE IF RGt(requiredMargin, availableMargin) /\ ~request.reduceOnly
      THEN TradeFailure("INSUFFICIENT_FUNDS", <<>>)
      ELSE IF request.orderType = "limit" /\ request.price = R(0)
      THEN TradeFailure("ERROR", leverageCalls)
      ELSE IF placement = "throws" THEN TradeFailure("ERROR", calls)
      ELSE IF placement \in {"rejected", "error"}
      THEN TradeFailure("FAILED", calls)
      ELSE IF placement = "filled"
      THEN [thrown |-> FALSE, success |-> TRUE, status |-> "FILLED",
            calls |-> calls, executedPrice |-> placed.limit_px,
            executedSize |-> roundedSize]
      ELSE [thrown |-> FALSE, success |-> TRUE, status |-> "PENDING",
            calls |-> calls, executedPrice |-> R(0),
            executedSize |-> R(0)]

\* context.size of closePosition, 0 when omitted
CloseSizes == {R(0), Rat(5, 100000), Rat(3, 100), R(2), R(5), R(-1)}

\* the context closePosition passes to executeTrade: symbol, side, size,
\* orderType, price and reduceOnly, and none of the ids of its own context
CloseRequest(symbol, orderSide, closeSize, orderType, price) ==
  [symbol |-> symbol, side |-> orderSide, size |-> closeSize,
   orderType |-> orderType, price |-> price, reduceOnly |-> TRUE,
   leverage |-> R(0)]

CloseFailure(status, calls, nested) ==
  [thrown |-> FALSE, success |-> FALSE, status |-> status,
   closedSize |-> R(0), calls |-> calls, nestedSessions |-> nested]

\* closePosition.  authenticated: the ids with a live session; szi: the
\* position of the caller's wallet; the last four: what the nested
\* executeTrade meets.  nestedSessions: the session id the nested
\* executeTrade resolves its context to
closePosition(context, authenticated, symbol, szi, size, orderType, price, metaAvailable, availableMargin, midPrice, placement) ==
  LET currentSize == szi
      positionSide == IF RGt(currentSize, R(0)) THEN "long" ELSE "short"
      closeSize == IF size # R(0) THEN size ELSE MathAbs(currentSize)
      orderSide == IF positionSide = "long" THEN "sell" ELSE "buy"
      nested == getSessionId(EmptyContext)
      closeResult ==
        executeTrade(nested \in authenticated,
                     CloseRequest(symbol, orderSide, closeSize, orderType,
                                  price),
                     metaAvailable, availableMargin, midPrice, placement)
  IN  IF getSessionId(context) \notin authenticated
      THEN [thrown |-> TRUE, success |-> FALSE,
            status |-> AuthenticationRequired, closedSize |-> R(0),
            calls |-> <<>>, nestedSessions |-> <<>>]
      ELSE IF currentSize = R(0) THEN CloseFailure("NO_POSITION", <<>>, <<>>)
      ELSE IF RGt(closeSize, MathAbs(currentSize))
      THEN CloseFailure("INVALID_SIZE", <<>>, <<>>)
      ELSE IF closeResult.thrown
      THEN CloseFailure("ERROR", closeResult.calls, <<nested>>)
      ELSE IF closeResult.success
      THEN [thrown |-> FALSE, success |-> TRUE, status |-> "CLOSED",
            closedSize |-> IF closeResult.executedSize # R(0)
                           THEN closeResult.executedSize ELSE closeSize,
            calls |-> closeResult.calls, nestedSessions |-> <<nested>>]
      ELSE CloseFailure("CLOSE_FAILED", closeResult.calls, <<nested>>)

(***************************************************************************)
(* generateRecommendation                                                  *)
(***************************************************************************)
\* winRate, change24h and maxDrawdown of getEnhancedMarketData
RecommendedMarkets ==
  [winRate : {R(40), R(62), R(66), R(71)}, change24h : {R(-7), R(0), R(7)},
   maxDrawdown : {R(10), R(50)}]

RecommendationFearGreed == {R(30), R(50), R(70)}

RiskTolerances == {"conservative", "moderate", "aggressive"}

\* what the 1h timeframe of the nested recognizePatterns delivers: no
\* pattern, one bearish pattern, two bearish patterns, a bullish flag
FirstSeries ==
  {ChartCandles([n |-> 51, x1 |-> 0, x2 |-> 0, y1 |-> 0, y2 |-> 0,
                 cp |-> 90, vr |-> 5]),
   ChartCandles([n |-> 51, x1 |-> 0, x2 |-> 0, y1 |-> 0, y2 |-> 0,
                 cp |-> 99, vr |-> 5]),
   ChartCandles([n |-> 51, x1 |-> 4, x2 |-> 5, y1 |-> 6, y2 |-> 2,
                 cp |-> 90, vr |-> 5]),
   FlagCandles([n |-> 51, w |-> 0, cp |-> 106, last |-> "stale",
                vr |-> 20])}

RecommendationFailure(message) ==
  [ok |-> FALSE,
   error |-> [wrapped |-> "Recommendation failed", message |-> message]]

\* action, direction and confidence: the first rule that applies
recommendedAction(marketData, fearGreedIndex, patternResult) ==
  LET bearishPatterns == patternResult.patternCount.bearish
      bullishPatterns == patternResult.patternCount.bullish
      overallSignal == patternResult.overallSignal
      winRate == marketData.winRate
  IN  IF RGt(winRate, R(70)) /\ overallSignal = "strong_bearish"
         /\ RGt(fearGreedIndex, R(60))
      THEN [action |-> "STRONG_SELL", direction |-> "SHORT",
            confidence |-> 90]
      ELSE IF RGt(winRate, R(65)) /\ overallSignal = "bearish"
              /\ bearishPatterns >= 2
      THEN [action |-> "SELL", direction |-> "SHORT", confidence |-> 80]
      ELSE IF RGt(winRate, R(70)) /\ overallSignal = "strong_bullish"
              /\ RLt(fearGreedIndex, R(40))
      THEN [action |-> "STRONG_BUY", direction |-> "LONG",
            confidence |-> 85]
      ELSE IF RGt(winRate, R(65)) /\ overallSignal = "bullish"
              /\ bullishPatterns >= 2
      THEN [action |-> "BUY", direction |-> "LONG", confidence |-> 75]
      ELSE IF RGt(winRate, R(60)) /\ RGt(MathAbs(marketData.change24h), R(5))
      THEN [action |-> IF RGt(marketData.change24h, R(0)) THEN "BUY"
                       ELSE "SELL",
            direction |-> IF RGt(marketData.change24h, R(0)) THEN "LONG"
                          ELSE "SHORT",
            confidence |-> 70]
      ELSE IF RLt(winRate, R(45)) \/ RGt(marketData.maxDrawdown, R(40))
      THEN [action |-> "HOLD", direction |-> "LONG", confidence |-> 30]
      ELSE [action |-> "HOLD", direction |-> "LONG", confidence |-> 50]

suggestedLeverage(riskTolerance, confidence) ==
  IF riskTolerance = "conservative" THEN (IF confidence > 80 THEN 2 ELSE 1)
  ELSE IF riskTolerance = "moderate"
  THEN (IF confidence > 80 THEN 3 ELSE IF confidence > 60 THEN 2 ELSE 1)
  ELSE (IF confidence > 80 THEN 5 ELSE IF confidence > 60 THEN 3 ELSE 2)

\* generateRecommendation.  patternResult: what the nested recognizePatterns
\* returns for the timeframes 1h and 4h
generateRecommendation(currentPrice, marketData, fearGreedIndex, patternResult, riskTolerance) ==
  IF currentPrice = R(0)
  THEN RecommendationFailure("Unable to fetch current price")
  ELSE IF ~patternResult.ok
  THEN RecommendationFailure(patternResult.error)
  ELSE
    LET chosen == recommendedAction(marketData, fearGreedIndex, patternResult)
        confidence == chosen.confidence
        short == chosen.direction = "SHORT"
        entry == RMul(currentPrice,
                      IF short THEN Rat(999, 1000) ELSE Rat(1001, 1000))
        stopLoss == RMul(currentPrice,
                         IF short THEN Rat(103, 100) ELSE Rat(97, 100))
        targets ==
          IF short
          THEN <<RMul(currentPrice, Rat(95, 100)),
                 RMul(currentPrice, Rat(90, 100)),
                 RMul(currentPrice, Rat(85, 100))>>
          ELSE <<RMul(currentPrice, Rat(105, 100)),
                 RMul(currentPrice, Rat(110, 100)),
                 RMul(currentPrice, Rat(115, 100))>>
        riskRewardRatio ==
          RDiv(MathAbs(RSub(targets[1], entry)), MathAbs(RSub(stopLoss, entry)))
    IN  [ok |-> TRUE,
         recommendation |-> [action |-> chosen.action,
                             confidence |-> confidence,
                             timeHorizon |-> "1-7 days"],
         tradeSetup |->
           [direction |-> chosen.direction,
            entry |-> RoundTo(entry, 100000),
            targets |-> [i \in 1..3 |-> RoundTo(targets[i], 100000)],
            stopLoss |-> RoundTo(stopLoss, 100000),
            suggestedLeverage |-> suggestedLeverage(riskTolerance, confidence),
            riskRewardRatio |-> RoundTo(riskRewardRatio, 100)],
         riskAssessment |->
           [riskLevel |-> IF confidence > 80 THEN "LOW"
                          ELSE IF confidence > 60 THEN "MEDIUM"
                          ELSE IF confidence > 40 THEN "HIGH"
                          ELSE "EXTREME",
            probabilitySuccess |-> confidence,
            winRate |-> RoundTo(marketData.winRate, 100),
            maxDrawdownExpected |->
              IF riskTolerance = "conservative" THEN 5
              ELSE IF riskTolerance = "moderate" THEN 10 ELSE 15],
         patternCount |-> patternResult.patternCount,
         overallSignal |-> patternResult.overallSignal]

(***************************************************************************)
(* testRpcEndpoint and compareNetworkRpcs                                  *)
(*                                                                         *)
(* One call of testRpcEndpoint arms the abort timer, awaits fetch (which   *)
(* settles when the status line and the headers have arrived, or fails),   *)
(* clears the timer, and then awaits response.json(), which settles when   *)
(* the whole body has arrived.  What the endpoint sends, and whether it    *)
(* sends anything, is the endpoint's choice.                               *)
(***************************************************************************)
MaxEndpoints == 2

Endpoints == 1..MaxEndpoints

ContentTypes == {"application/json", "text/html", "none"}

\* what fetch resolves with: the status line and the headers
Responses == [ok : BOOLEAN, contentType : ContentTypes]

\* what response.json() settles with when the body is complete
Bodies == {"result", "error", "malformed"}

NotCalled == [pc |-> "notCalled", timer |-> "none", status |-> "none", error |-> ""]

\* the call up to its first await
AwaitingFetch == [pc |-> "fetch", timer |-> "armed", status |-> "none", error |-> ""]

TestResult(timer, status, error) == [pc |-> "returned", timer |-> timer, status |-> status, error |-> error]

\* the catch block
TestCaught(timer, errorName) == TestResult(timer, "offline", IF errorName = "AbortError" THEN "Request timeout (10s)" ELSE errorName)

\* from the settling of fetch to the next await or return
AfterFetch(response) ==
  IF ~response.ok
  THEN TestResult("cleared", "offline", "HTTP")
  ELSE IF response.contentType # "application/json"
       THEN TestResult("cleared", "offline",
                       "Invalid response format - not JSON")
       ELSE [pc |-> "json", timer |-> "cleared", status |-> "none",
             error |-> ""]

\* from the settling of response.json() to the return
AfterJson(test, body) ==
  IF body = "malformed"
  THEN TestCaught(test.timer, "SyntaxError")
  ELSE IF body = "error"
       THEN TestResult(test.timer, "offline", "RPC Error")
       ELSE TestResult(test.timer, "online", "")

(***************************************************************************)
(* The tools as operations                                                 *)
(***************************************************************************)
Init ==
  /\ op = "none"
  /\ args = [none |-> TRUE]
  /\ ret = [none |-> TRUE]
  /\ userSessions = [s \in SessionIds |-> NoSession]
  /\ now = 0
  /\ lastAuth = [s \in SessionIds |-> -1]
  /\ rpc = [tool |-> "idle", tests |-> [e \in Endpoints |-> NotCalled]]

CalculatePositionSize ==
  /\ op = "none"
  /\ \E hasClient \in BOOLEAN, accountValue \in AccountValues,
     totalMarginUsed \in UsedMargins, entryPrice \in EntryPrices,
     leverage \in Leverages, symbol \in Symbols, winRate \in WinRates :
   \E stopLoss \in StopLosses(entryPrice) :
    /\ op' = "calculatePositionSize"
    /\ args' = [hasClient |-> hasClient, accountValue |-> accountValue,
                totalMarginUsed |-> totalMarginUsed,
                entryPrice |-> entryPrice, stopLoss |-> stopLoss,
                leverage |-> leverage, symbol |-> symbol,
                winRate |-> winRate]
    /\ ret' = calculatePositionSize(hasClient, accountValue, totalMarginUsed,
                                    entryPrice, stopLoss, leverage, winRate)
    /\ UNCHANGED sessVars

\* the scans' call of calculateAdvancedOpportunityScore(marketData,
\* fearGreedIndex)
ScoreOpportunity ==
  /\ op = "none"
  /\ \E winRate \in ScoredWinRates, sharpeRatio \in MetricSharpes,
        rsi \in MetricRsis, change24h \in MetricChanges,
        volume24h \in MetricVolumes, maxDrawdown \in MetricDrawdowns,
        fearGreedIndex \in FearGreedIndexes :
       LET data == [winRate |-> winRate, sharpeRatio |-> sharpeRatio,
                    rsi |-> rsi, change24h |-> change24h,
                    volume24h |-> volume24h, maxDrawdown |-> maxDrawdown]
       IN  /\ op' = "calculateAdvancedOpportunityScore"
           /\ args' = [data |-> data, fearGreedIndex |-> fearGreedIndex]
           /\ ret' = [score |->
                        calculateAdvancedOpportunityScore(data,
                                                          fearGreedIndex)]
           /\ UNCHANGED sessVars

\* the scans' call of analyzeSetup(rsi, change24h, fearGreedIndex, winRate)
AnalyzeSetup ==
  /\ op = "none"
  /\ \E rsi \in MetricRsis, change24h \in MetricChanges,
        fearGreedIndex \in FearGreedIndexes, winRate \in MetricWinRates :
       /\ op' = "analyzeSetup"
       /\ args' = [rsi |-> rsi, change24h |-> change24h,
                   fearGreedIndex |-> fearGreedIndex, winRate |-> winRate]
       /\ ret' = analyzeSetup(rsi, change24h, fearGreedIndex, winRate)
       /\ UNCHANGED sessVars

\* a call of roundToLotSize(value, increment) and of
\* roundToTickSize(value, increment)
RoundToIncrement ==
  /\ op = "none"
  /\ \E value \in RoundedValues, increment \in RoundingIncrements :
       /\ op' = "roundToIncrement"
       /\ args' = [value |-> value, increment |-> increment]
       /\ ret' = [lot |-> roundToLotSize(value, increment),
                  tick |-> roundToTickSize(value, increment)]
       /\ UNCHANGED sessVars

\* a call of calculateTechnicalIndicators on one candle series
CalculateTechnicalIndicators ==
  /\ op = "none"
  /\ \E n \in CandleLengths, base \in CandleBases, shape \in CandleShapes :
       /\ op' = "calculateTechnicalIndicators"
       /\ args' = [candles |-> IndicatorCandles(n, base, shape)]
       /\ ret' = calculateTechnicalIndicators(IndicatorCandles(n, base, shape))
       /\ UNCHANGED sessVars

\* a call of calculateWinningMetrics on one candle series
CalculateWinningMetrics ==
  /\ op = "none"
  /\ \E n \in CandleLengths, base \in CandleBases, shape \in CandleShapes :
       /\ op' = "calculateWinningMetrics"
       /\ args' = [candles |-> IndicatorCandles(n, base, shape)]
       /\ ret' = calculateWinningMetrics(IndicatorCandles(n, base, shape))
       /\ UNCHANGED sessVars

\* a call of identifyRealPatterns on the candles of one chart
IdentifyRealPatterns ==
  /\ op = "none"
  /\ \E candles \in ScannedCandles :
       /\ op' = "identifyRealPatterns"
       /\ args' = [candles |-> candles]
       /\ ret' = [patterns |-> identifyRealPatterns(candles)]
       /\ UNCHANGED sessVars

\* a call of recognizePatterns: the price lookup gives currentPrice (0 when
\* the price is unavailable) and each timeframe delivers the candles of
\* one chart
RecognizePatterns ==
  /\ op = "none"
  /\ \E first \in ScannedCandles, second \in SecondSeries,
        timeframes \in TimeframeLists, available \in BOOLEAN :
       LET currentPrice == IF available THEN first[Len(first)].c ELSE R(0)
           candles == IF Len(timeframes) = 1 THEN <<first>>
                      ELSE <<first, second>>
       IN  /\ op' = "recognizePatterns"
           /\ args' = [currentPrice |-> currentPrice,
                       timeframes |-> timeframes, candles |-> candles]
           /\ ret' = recognizePatterns(currentPrice, timeframes, candles)
           /\ UNCHANGED sessVars

\* the accounts and symbols of the round trip from a pattern to a size
RoundTripAccountValues == {R(4), R(7), R(100), R(1000)}

RoundTripSymbols == {"BTC", "SOL", "DOGE"}

\* identifyRealPatterns on one chart, then calculatePositionSize by an
\* authenticated caller with the entry and the stopLoss of one of the
\* patterns found
PatternRoundTrip ==
  /\ op = "none"
  /\ \E chart \in Charts :
       \E pattern \in Elements(identifyRealPatterns(ChartCandles(chart))) :
         \E accountValue \in RoundTripAccountValues, leverage \in Leverages,
            symbol \in RoundTripSymbols :
           /\ op' = "patternRoundTrip"
           /\ args' = [pattern |-> pattern, accountValue |-> accountValue,
                       totalMarginUsed |-> R(0),
                       entryPrice |-> pattern.entry,
                       stopLoss |-> pattern.stopLoss,
                       leverage |-> leverage, symbol |-> symbol]
           /\ ret' = calculatePositionSize(TRUE, accountValue, R(0),
                                           pattern.entry, pattern.stopLoss,
                                           leverage, Undefined)
           /\ UNCHANGED sessVars

\* one of the tools looks up the prices it needs
LookUpPrice ==
  /\ op = "none"
  /\ \E tool \in PricedTools, p1 \in LookedUpPrices, p2 \in LookedUpPrices,
        price \in GivenPrices, liquidationPrice \in LiquidationPrices :
       /\ op' = "lookUpPrice"
       /\ args' = [tool |-> tool, prices |-> <<p1, p2>>, price |-> price,
                   liquidationPrice |-> liquidationPrice]
       /\ ret' = priceHandling(tool, <<p1, p2>>, price, liquidationPrice)
       /\ UNCHANGED sessVars

\* time passes
Tick ==
  \E step \in {1, HalfHour} :
    /\ now + step <= MaxHalfHours * HalfHour + MaxMillis
    /\ step = 1 => now % HalfHour < MaxMillis
    /\ now' = now + step
    /\ UNCHANGED <<op, args, ret, userSessions, lastAuth, rpc>>

\* execute of authenticate-user
AuthenticateUser ==
  \E context \in Contexts, command \in Commands, reachable \in BOOLEAN :
    LET sessionId == getSessionId(context)
        status == authenticationStatus(command, reachable)
    IN  /\ op' = "authenticateUser"
        /\ args' = [context |-> context, command |-> command,
                    reachable |-> reachable, at |-> now]
        /\ ret' = [success |-> status = "AUTHENTICATED", status |-> status]
        /\ IF status = "AUTHENTICATED"
           THEN /\ userSessions' =
                     cleanupExpiredSessions(
                       [userSessions EXCEPT
                          ![sessionId] =
                            [walletAddress |-> command[3],
                             expiresAt |-> now + SESSION_TIMEOUT]],
                       now)
                /\ lastAuth' = [lastAuth EXCEPT ![sessionId] = now]
           ELSE UNCHANGED <<userSessions, lastAuth>>
        /\ UNCHANGED <<now, rpc>>

\* the start of execute of an auth-requiring tool: getAuthenticatedClient,
\* then the throw, or else the calls of the exchange
CallAuthRequiringTool ==
  \E context \in Contexts, tool \in AuthRequiringTools :
    LET accepted == HasAuthenticatedClient(userSessions, context, now)
    IN  /\ op' = "authRequiringTool"
        /\ args' = [context |-> context, tool |-> tool, at |-> now]
        /\ ret' = [accepted |-> accepted,
                   error |-> IF accepted THEN "" ELSE AuthenticationRequired,
                   exchangeCalled |-> accepted]
        /\ userSessions' = cleanupExpiredSessions(userSessions, now)
        /\ UNCHANGED <<now, lastAuth, rpc>>

\* execute of check-trade-auth
CheckTradeAuth ==
  \E context \in Contexts :
    LET session == userSessions[getSessionId(context)]
        authorized == ~(session = NoSession \/ SessionExpired(session, now))
    IN  /\ op' = "checkTradeAuth"
        /\ args' = [context |-> context, at |-> now]
        /\ ret' = [isAuthorized |-> authorized,
                   status |-> IF authorized THEN "AUTHENTICATED"
                              ELSE "NOT_AUTHENTICATED"]
        /\ UNCHANGED sessVars

\* a tool that works without a session:
\* getAuthenticatedClient(context) || createHyperliquidClient()
CallPublicTool ==
  \E context \in Contexts :
    /\ op' = "publicTool"
    /\ args' = [context |-> context, at |-> now]
    /\ ret' = [authenticated |->
                 HasAuthenticatedClient(userSessions, context, now)]
    /\ userSessions' = cleanupExpiredSessions(userSessions, now)
    /\ UNCHANGED <<now, lastAuth, rpc>>

UpdateStopLoss ==
  /\ op = "none"
  /\ \E symbol \in TradedSymbols, stopOrders \in SUBSET StopOrderIds,
        placement \in PlacementOutcomes, stopPrice \in StopPrices :
      \E szi \in PositionsOf(symbol), cancelFailures \in SUBSET stopOrders :
       /\ op' = "updateStopLoss"
       /\ args' = [symbol |-> symbol, szi |-> szi, stopOrders |-> stopOrders,
                   cancelFailures |-> cancelFailures,
                   placement |-> placement, stopPrice |-> stopPrice]
       /\ ret' = updateStopLoss(symbol, szi, stopOrders, cancelFailures,
                                placement, stopPrice)
  /\ UNCHANGED sessVars

MonitorPositions ==
  /\ op = "none"
  /\ \E context \in Contexts, authenticated \in SUBSET SessionIds,
        account \in MonitoredAccounts, totalUnrealizedPnl \in UnrealizedPnls,
        alertThresholds \in AlertThresholds :
       /\ op' = "monitorPositions"
       /\ args' = [context |-> context, authenticated |-> authenticated,
                   account |-> account,
                   totalUnrealizedPnl |-> totalUnrealizedPnl,
                   alertThresholds |-> alertThresholds]
       /\ ret' = monitorPositions(context, authenticated, account,
                                  totalUnrealizedPnl, alertThresholds)
  /\ UNCHANGED sessVars

FindTopOpportunities ==
  /\ op = "none"
  /\ \E universe \in Universes, maxSymbols \in ScanLimits,
        minVolume \in ScanMinVolumes, topCount \in TopCounts,
        fearGreedIndex \in ScanFearGreedIndexes :
       LET allSymbols == SliceFirst(universe, maxSymbols)
           opportunities ==
             scanOpportunities(allSymbols, minVolume, fearGreedIndex)
       IN  \E sorted \in sortOutcomes(opportunities) :
             /\ op' = "findTopOpportunities"
             /\ args' = [universe |-> universe, maxSymbols |-> maxSymbols,
                         minVolume |-> minVolume, topCount |-> topCount,
                         fearGreedIndex |-> fearGreedIndex]
             /\ ret' = findTopOpportunities(allSymbols, sorted, topCount)
  /\ UNCHANGED sessVars

ExecuteTrade ==
  /\ op = "none"
  /\ \E authenticated \in BOOLEAN, request \in TradeRequests,
        metaAvailable \in BOOLEAN, availableMargin \in AvailableMargins,
        midPrice \in MidPrices, placement \in TradeOutcomes :
       /\ op' = "executeTrade"
       /\ args' = [authenticated |-> authenticated, request |-> request,
                   metaAvailable |-> metaAvailable,
                   availableMargin |-> availableMargin,
                   midPrice |-> midPrice, placement |-> placement]
       /\ ret' = executeTrade(authenticated, request, metaAvailable,
                              availableMargin, midPrice, placement)
  /\ UNCHANGED sessVars

ClosePosition ==
  /\ op = "none"
  /\ \E context \in Contexts, authenticated \in SUBSET SessionIds,
        symbol \in TradedSymbols, size \in CloseSizes,
        orderType \in {"market", "limit"}, price \in TradePrices,
        metaAvailable \in BOOLEAN, midPrice \in MidPrices,
        placement \in TradeOutcomes :
      \E szi \in PositionsOf(symbol) :
       /\ op' = "closePosition"
       /\ args' = [context |-> context, authenticated |-> authenticated,
                   symbol |-> symbol, szi |-> szi, size |-> size,
                   orderType |-> orderType, price |-> price,
                   metaAvailable |-> metaAvailable, midPrice |-> midPrice,
                   placement |-> placement]
       /\ ret' = closePosition(context, authenticated, symbol, szi, size,
                               orderType, price, metaAvailable, R(1000),
                               midPrice, placement)
  /\ UNCHANGED sessVars

\* a call of generateRecommendation: the price lookup gives currentPrice (0
\* when the price is unavailable), to the tool and to the recognizePatterns
\* it calls
GenerateRecommendation ==
  /\ op = "none"
  /\ \E first \in FirstSeries, second \in SecondSeries :
      \E marketData \in RecommendedMarkets,
         fearGreedIndex \in RecommendationFearGreed,
         riskTolerance \in RiskTolerances, available \in BOOLEAN :
       LET currentPrice == IF available THEN first[Len(first)].c ELSE R(0)
           patternResult ==
             recognizePatterns(currentPrice, <<"1h", "4h">>, <<first, second>>)
       IN  /\ op' = "generateRecommendation"
           /\ args' = [currentPrice |-> currentPrice,
                       marketData |-> marketData,
                       fearGreedIndex |-> fearGreedIndex,
                       riskTolerance |-> riskTolerance,
                       candles |-> <<first, second>>]
           /\ ret' = generateRecommendation(currentPrice, marketData,
                                            fearGreedIndex, patternResult,
                                            riskTolerance)
  /\ UNCHANGED sessVars

\* execute of compare-network-rpcs up to its await: endpoints.map starts
\* every testRpcEndpoint, each of which runs to its await of fetch
CompareNetworkRpcs ==
  /\ rpc.tool = "idle"
  /\ rpc' = [tool |-> "awaiting", tests |-> [e \in Endpoints |-> AwaitingFetch]]
  /\ UNCHANGED <<op, args, ret, userSessions, now, lastAuth>>

\* the status line and the headers of an endpoint arrive
FetchResolves(e) ==
  /\ rpc.tests[e].pc = "fetch"
  /\ \E response \in Responses :
       rpc' = [rpc EXCEPT !.tests[e] = AfterFetch(response)]
  /\ UNCHANGED <<op, args, ret, userSessions, now, lastAuth>>

\* the connection to an endpoint fails
FetchRejects(e) ==
  /\ rpc.tests[e].pc = "fetch"
  /\ rpc' = [rpc EXCEPT !.tests[e] = TestCaught(@.timer, "fetch failed")]
  /\ UNCHANGED <<op, args, ret, userSessions, now, lastAuth>>

\* the abort timer of a call fires: controller.abort()
TimerFires(e) ==
  /\ rpc.tests[e].timer = "armed"
  /\ rpc' = [rpc EXCEPT !.tests[e] =
               IF @.pc \in {"fetch", "json"}
               THEN TestCaught("fired", "AbortError")
               ELSE [@ EXCEPT !.timer = "fired"]]
  /\ UNCHANGED <<op, args, ret, userSessions, now, lastAuth>>

\* the last byte of the body of an endpoint arrives
BodyArrives(e) ==
  /\ rpc.tests[e].pc = "json"
  /\ \E body \in Bodies :
       rpc' = [rpc EXCEPT !.tests[e] = AfterJson(@, body)]
  /\ UNCHANGED <<op, args, ret, userSessions, now, lastAuth>>

\* Promise.all resolves when every testRpcEndpoint has returned
PromiseAllResolves ==
  /\ rpc.tool = "awaiting"
  /\ \A e \in Endpoints : rpc.tests[e].pc = "returned"
  /\ rpc' = [rpc EXCEPT !.tool = "resolved"]
  /\ UNCHANGED <<op, args, ret, userSessions, now, lastAuth>>

TestRpcEndpoints ==
  \E e \in Endpoints :
    FetchResolves(e) \/ FetchRejects(e) \/ TimerFires(e) \/ BodyArrives(e)

Next ==
  \/ CalculatePositionSize
  \/ ScoreOpportunity
  \/ AnalyzeSetup
  \/ RoundToIncrement
  \/ CalculateTechnicalIndicators
  \/ CalculateWinningMetrics
  \/ IdentifyRealPatterns
  \/ RecognizePatterns
  \/ PatternRoundTrip
  \/ LookUpPrice
  \/ Tick
  \/ AuthenticateUser
  \/ CallAuthRequiringTool
  \/ CheckTradeAuth
  \/ CallPublicTool
  \/ UpdateStopLoss
  \/ MonitorPositions
  \/ FindTopOpportunities
  \/ ExecuteTrade
  \/ ClosePosition
  \/ GenerateRecommendation
  \/ CompareNetworkRpcs
  \/ TestRpcEndpoints
  \/ PromiseAllResolves

Spec == Init /\ [][Next]_vars

\* the calls of one tool or helper only
NextSizing == CalculatePositionSize

SpecSizing == Init /\ [][NextSizing]_vars

NextScore == ScoreOpportunity

SpecScore == Init /\ [][NextScore]_vars

NextSetup == AnalyzeSetup

SpecSetup == Init /\ [][NextSetup]_vars

SpecRounding == Init /\ [][RoundToIncrement]_vars

SpecIndicators ==
  Init /\ [][CalculateTechnicalIndicators \/ CalculateWinningMetrics]_vars

SpecPatterns == Init /\ [][IdentifyRealPatterns]_vars

SpecRecognize == Init /\ [][RecognizePatterns]_vars

SpecRoundTrip == Init /\ [][PatternRoundTrip]_vars

SpecPriceLookup == Init /\ [][LookUpPrice]_vars

SpecStopLoss == Init /\ [][UpdateStopLoss]_vars

SpecMonitor == Init /\ [][MonitorPositions]_vars

SpecScan == Init /\ [][FindTopOpportunities]_vars

SpecTrade == Init /\ [][ExecuteTrade]_vars

SpecNested == Init /\ [][ClosePosition \/ MonitorPositions]_vars

SpecClose == Init /\ [][ClosePosition]_vars

SpecRecommend == Init /\ [][RecognizePatterns \/ GenerateRecommendation]_vars

NextRpc == CompareNetworkRpcs \/ TestRpcEndpoints \/ PromiseAllResolves

SpecRpc == Init /\ [][NextRpc]_vars

\* The event loop runs a timer that is due and a continuation that is
\* ready; nothing obliges an endpoint to send anything.
RpcScheduling ==
  /\ \A e \in Endpoints : WF_vars(TimerFires(e))
  /\ WF_vars(PromiseAllResolves)

SpecRpcScheduled == SpecRpc /\ RpcScheduling

NextSessions ==
  \/ Tick
  \/ AuthenticateUser
  \/ CallAuthRequiringTool
  \/ CheckTradeAuth
  \/ CallPublicTool

SpecSessions == Init /\ [][NextSessions]_vars

(***************************************************************************)
(* Properties of calculatePositionSize                                     *)
(***************************************************************************)
Sized == op = "calculatePositionSize"

SizedOk == Sized /\ ret.ok

HasWarning(w) == \E i \in 1..Len(ret.warnings) : ret.warnings[i] = w

AvailableMarginOfCall == RSub(args.accountValue, args.totalMarginUsed)

\* equity x riskPct / 100 of the tier that the table of the specification
\* selects for the call's equity
RiskCapOfCall ==
  LET b == args.accountValue
      riskPct == IF RLt(b, R(10)) THEN 85
                 ELSE IF RLt(b, R(50)) THEN 50
                 ELSE IF RLt(b, R(500)) THEN 20
                 ELSE 2
  IN  RMul(b, Rat(riskPct, 100))

\* C1 as stated: for equity >= 10 a successful call reports
\* riskAmount <= equity x riskPct / 100, unless the margin-exceeded clamp
\* was taken, and then its warning is present.
C1_RiskAmountWithinCap ==
  (SizedOk /\ RGe(args.accountValue, R(10))) =>
    \/ RLe(ret.riskAmount, RiskCapOfCall)
    \/ HasWarning(WarnExceedsMargin)

\* C1 amended: for equity >= 10 a successful call reports a riskAmount of at
\* most equity x riskPct / 100 rounded to the nearest cent (so it is above
\* the cap by at most half a cent), unless the margin-exceeded clamp was
\* taken, and then its warning is present.
C1_RiskAmountWithinRoundedCap ==
  (SizedOk /\ RGe(args.accountValue, R(10))) =>
    \/ /\ RLe(ret.riskAmount, RoundTo(RiskCapOfCall, 100))
       /\ RLe(ret.riskAmount, RAdd(RiskCapOfCall, Rat(5, 1000)))
    \/ HasWarning(WarnExceedsMargin)

\* a successful call on equity >= 10 in which the risk cap shrank the size:
\* the reported risk is the (rounded) cap and the size is below the size the
\* usable margin allows
C1_Witness ==
  /\ SizedOk
  /\ args.accountValue = R(100)
  /\ args.totalMarginUsed = R(0)
  /\ args.entryPrice = R(6)
  /\ args.stopLoss = R(12)
  /\ args.leverage = R(20)
  /\ ret.riskAmount = R(20)
  /\ RLt(ret.positionSize, Rat(400, 6))

C3_NeverUnderSized ==
  Sized =>
    /\ ret.ok => RGe(RMul(ret.positionSize, args.entryPrice), MinNotional)
    /\ (~ret.ok /\ ret.error.message.kind = "Position too small") =>
         /\ ret.error.message.needs = MinNotional
         /\ RLt(ret.error.message.currentMax, MinNotional)

\* C4: the returned positionSize is an integer multiple of the lot size that
\* getAssetSpecs gives for the requested symbol.
C4_LotCompliant ==
  SizedOk =>
    IsMultipleOf(ret.positionSize, getAssetSpecsLotSize(args.symbol))

\* the margin the position sized for the call requires, before the clamp
RequiredMarginOfCall ==
  LET riskProfile == getAccountRiskProfile(args.accountValue)
      maxPositionSize ==
        RDiv(RMul(RMul(AvailableMarginOfCall,
                       Rat(riskProfile.usagePct, 100)), args.leverage),
             args.entryPrice)
      sized == StopLossConstrainedSize(args.accountValue, riskProfile,
                 maxPositionSize,
                 MathAbs(RSub(args.entryPrice, args.stopLoss)))
  IN  RDiv(RMul(sized, args.entryPrice), args.leverage)

\* C5: an authenticated call fails with "No available margin" when
\* accountValue - totalMarginUsed <= 0; when available margin is positive
\* and the required margin exceeds it, the call succeeds with the size
\* availableMargin x leverage / entryPrice and the warning.
C5_MarginFailureAndClamp ==
  (Sized /\ args.hasClient) =>
    /\ RLe(AvailableMarginOfCall, R(0)) =>
         /\ ~ret.ok
         /\ ret.error.message = NoAvailableMargin
    /\ RGt(AvailableMarginOfCall, R(0)) =>
         /\ ~ret.ok => ret.error.message # NoAvailableMargin
         /\ RGt(RequiredMarginOfCall, AvailableMarginOfCall) =>
              /\ ret.ok
              /\ ret.positionSize =
                   ReportedSize(RDiv(RMul(AvailableMarginOfCall,
                                          args.leverage), args.entryPrice))
              /\ HasWarning(WarnExceedsMargin)

\* an authenticated call on an account whose margin is exactly used up
C5_Witness ==
  /\ Sized
  /\ args.hasClient
  /\ args.accountValue = R(4)
  /\ args.totalMarginUsed = R(4)
  /\ ~ret.ok
  /\ ret.error.message = NoAvailableMargin

\* C6: for equity < 10 the size is usableMargin x leverage / entryPrice
\* whatever the stop, and every successful result carries the micro-account
\* warning; for equity >= 10 that warning is never present.
C6_MicroAccount ==
  SizedOk =>
    IF RLt(args.accountValue, R(10))
    THEN /\ ret.positionSize =
              ReportedSize(RDiv(RMul(RMul(AvailableMarginOfCall,
                                          Rat(85, 100)), args.leverage),
                                args.entryPrice))
         /\ HasWarning(WarnMicroAccount)
    ELSE ~HasWarning(WarnMicroAccount)

\* a successful micro-account call whose reported risk is above the 85% of
\* equity that the cap, had it applied, would allow
C6_Witness ==
  /\ SizedOk
  /\ RLt(args.accountValue, R(10))
  /\ HasWarning(WarnMicroAccount)
  /\ RGt(ret.riskAmount, RMul(args.accountValue, Rat(85, 100)))

\* the call of the scenario: equity 1000, no margin in use, entry 50000,
\* stop 51000, leverage 3
IsScenarioLargeAccount ==
  /\ Sized
  /\ args.hasClient
  /\ args.accountValue = R(1000)
  /\ args.totalMarginUsed = R(0)
  /\ args.entryPrice = R(50000)
  /\ args.stopLoss = R(51000)
  /\ args.leverage = R(3)

WinRateMultiplier(winRate) ==
  IF RGt(winRate, R(70)) THEN Rat(15, 10)
  ELSE IF RGe(winRate, R(60)) THEN Rat(12, 10)
  ELSE R(1)

\* C8: with all other inputs fixed, the size returned for a supplied win
\* rate is the documented multiplier (1.5 above 70%, 1.2 for 60-70%, 1.0 for
\* 50-60%) times the size returned for a win rate in the 1.0 band, up to the
\* rounding of the report to 4 decimals.
C8_WinRateMultiplier ==
  (SizedOk /\ args.winRate # Undefined) =>
    LET base == calculatePositionSize(args.hasClient, args.accountValue,
                  args.totalMarginUsed, args.entryPrice, args.stopLoss,
                  args.leverage, BaseWinRate)
        expected == RMul(WinRateMultiplier(args.winRate), base.positionSize)
    IN  /\ base.ok
        /\ RLe(MathAbs(RSub(ret.positionSize, expected)), Rat(1, 10000))

(***************************************************************************)
(* Properties of analyzeSetup and calculateAdvancedOpportunityScore        *)
(***************************************************************************)
Classified == op = "analyzeSetup"

Rule1 ==
  /\ RGt(args.winRate, R(70))
  /\ RGt(args.rsi, R(70))
  /\ RGt(args.fearGreedIndex, R(60))

Rule2 ==
  /\ RGt(args.winRate, R(65))
  /\ RLt(args.rsi, R(30))
  /\ RLt(args.fearGreedIndex, R(40))

Rule3 ==
  /\ RGt(args.winRate, R(60))
  /\ \/ RGt(args.change24h, R(6))
     \/ RLt(args.change24h, R(-6))

Rule4 == RGt(args.winRate, R(55))

\* C9: analyzeSetup is the ordered first-match cascade: rule 1 gives
\* SHORT/85; else rule 2 gives LONG/80; else rule 3 gives the sign of
\* change24h with confidence 75; else rule 4 gives LONG if rsi > 50 else
\* SHORT with confidence 65; else NEUTRAL/40; and NEUTRAL is returned exactly
\* when winRate <= 55.
C9_SetupCascade ==
  Classified =>
    /\ Rule1 => (ret.direction = "SHORT" /\ ret.confidence = 85)
    /\ (~Rule1 /\ Rule2) => (ret.direction = "LONG" /\ ret.confidence = 80)
    /\ (~Rule1 /\ ~Rule2 /\ Rule3) =>
         /\ ret.confidence = 75
         /\ ret.direction =
              (IF RGt(args.change24h, R(0)) THEN "LONG" ELSE "SHORT")
    /\ (~Rule1 /\ ~Rule2 /\ ~Rule3 /\ Rule4) =>
         /\ ret.confidence = 65
         /\ ret.direction =
              (IF RGt(args.rsi, R(50)) THEN "LONG" ELSE "SHORT")
    /\ (~Rule1 /\ ~Rule2 /\ ~Rule3 /\ ~Rule4) =>
         (ret.direction = "NEUTRAL" /\ ret.confidence = 40)
    /\ (ret.direction = "NEUTRAL") <=> RLe(args.winRate, R(55))

\* the scenario win rate 74, RSI 72, sentiment 65 with a 7% move, which
\* matches rules 1, 3 and 4 and is classified by rule 1
C9_Witness ==
  /\ Classified
  /\ args.winRate = R(74)
  /\ args.rsi = R(72)
  /\ args.fearGreedIndex = R(65)
  /\ args.change24h = R(7)
  /\ ret.direction = "SHORT"
  /\ ret.confidence = 85

Scored == op = "calculateAdvancedOpportunityScore"

\* 1 when the condition holds, else 0
Ind(cond) == IF cond THEN 1 ELSE 0

\* ten times the score of the fixed-weight reference formula, before the
\* drawdown penalty
ReferenceScoreTimes10(d, fg) ==
  LET winRate == IF RLt(d.winRate, R(100)) THEN d.winRate ELSE R(100)
      sharpeRaw == RMul(RAdd(d.sharpeRatio, R(2)), R(25))
      sharpe == IF RLt(sharpeRaw, R(0)) THEN R(0)
                ELSE IF RGt(sharpeRaw, R(100)) THEN R(100)
                ELSE sharpeRaw
      rsiAdjustment ==
        15 * Ind(RGt(d.rsi, R(70))) + 20 * Ind(RLt(d.rsi, R(30)))
        - 10 * Ind(RGt(d.rsi, R(45)) /\ RLt(d.rsi, R(55)))
      momentumRaw ==
        50 + rsiAdjustment
        + 15 * Ind(RGt(d.change24h, R(5)) \/ RLt(d.change24h, R(-5)))
      momentum == IF momentumRaw > 100 THEN 100 ELSE momentumRaw
      volumeRaw == RDiv(d.volume24h, R(100000))
      volume == IF RGt(volumeRaw, R(100)) THEN R(100) ELSE volumeRaw
      sentiment ==
        IF RGt(fg, R(75)) /\ RGt(d.rsi, R(65)) THEN 80
        ELSE IF RLt(fg, R(25)) /\ RLt(d.rsi, R(35)) THEN 70
        ELSE IF RGt(fg, R(70)) \/ RLt(fg, R(30)) THEN 30
        ELSE 0
  IN  RAdd(RAdd(RMul(R(4), winRate), RMul(R(2), sharpe)),
           RAdd(R(2 * momentum), RAdd(volume, R(sentiment))))

\* C10: the score equals 0.40 x min(winRate, 100) + 0.20 x clamp((sharpe + 2)
\* x 25, 0, 100) + 0.20 x min(100, momentum) + 0.10 x min(100, volume24h /
\* 1,000,000 x 10) + 0.10 x sentiment component, times 0.8 when maxDrawdown >
\* 50; it lies within [0, 100]; at most one RSI adjustment of the momentum
\* component applies.
C10_ScoreFormula ==
  Scored =>
    LET d == args.data
        sum == RDiv(ReferenceScoreTimes10(d, args.fearGreedIndex), R(10))
        expected == IF RGt(d.maxDrawdown, R(50)) THEN RMul(sum, Rat(4, 5))
                    ELSE sum
    IN  /\ ret.score = expected
        /\ RGe(ret.score, R(0))
        /\ RLe(ret.score, R(100))
        /\ Ind(RGt(d.rsi, R(70))) + Ind(RLt(d.rsi, R(30)))
           + Ind(RGt(d.rsi, R(45)) /\ RLt(d.rsi, R(55))) <= 1

\* the largest score, 40 + 20 + 16 + 10 + 8, taken with the drawdown penalty:
\* 94 x 0.8
C10_Witness ==
  /\ Scored
  /\ args.data.winRate = R(100)
  /\ args.data.rsi = R(72)
  /\ args.data.maxDrawdown = R(51)
  /\ ret.score = Rat(752, 10)

(***************************************************************************)
(* Properties of the score in winRate and of the rounding helpers          *)
(***************************************************************************)
\* C11: of two metric records that differ only in winRate, the one with the
\* higher winRate has a score at least as large.
C11_ScoreMonotoneInWinRate ==
  Scored =>
    \A w \in ScoredWinRates :
      RLe(args.data.winRate, w) =>
        RLe(ret.score,
            calculateAdvancedOpportunityScore(
              [args.data EXCEPT !.winRate = w], args.fearGreedIndex))

\* a scored record, with the drawdown penalty, whose score is strictly below
\* that of the same record with win rate 100
C11_Witness ==
  /\ Scored
  /\ args.data.winRate = R(74)
  /\ args.data.maxDrawdown = R(51)
  /\ RLt(ret.score,
         calculateAdvancedOpportunityScore(
           [args.data EXCEPT !.winRate = R(100)], args.fearGreedIndex))

Rounded == op = "roundToIncrement"

\* C19: roundToLotSize and roundToTickSize are idempotent; the rounded value
\* is an integer multiple of the increment when the increment is positive,
\* and the value itself when the increment is <= 0.
C19_RoundingIdempotent ==
  Rounded =>
    /\ roundToLotSize(ret.lot, args.increment) = ret.lot
    /\ roundToTickSize(ret.tick, args.increment) = ret.tick
    /\ RGt(args.increment, R(0)) =>
         /\ IsMultipleOf(ret.lot, args.increment)
         /\ IsMultipleOf(ret.tick, args.increment)
         /\ RLe(MathAbs(RSub(ret.lot, args.value)),
                RDiv(args.increment, R(2)))
         /\ RLe(MathAbs(RSub(ret.tick, args.value)),
                RDiv(args.increment, R(2)))
    /\ RLe(args.increment, R(0)) =>
         (ret.lot = args.value /\ ret.tick = args.value)

\* a value that is not a multiple of the increment and is rounded up
C19_Witness ==
  /\ Rounded
  /\ args.value = Rat(17, 1000)
  /\ args.increment = Rat(1, 100)
  /\ ret.lot = Rat(2, 100)
  /\ ret.tick = Rat(2, 100)

(***************************************************************************)
(* Properties of calculateTechnicalIndicators and calculateWinningMetrics  *)
(***************************************************************************)
Indicated == op = "calculateTechnicalIndicators"

Measured == op = "calculateWinningMetrics"

\* the last 14 close-to-close changes of the series of the call hold no loss
NoLossInLast14 ==
  LET closes == Closes(args.candles)
      first == IF Len(closes) - 14 > 1 THEN Len(closes) - 14 ELSE 1
  IN  \A i \in first..(Len(closes) - 1) : RLe(closes[i], closes[i + 1])

\* C12: for a series of at least 20 candles whose last 14 changes hold no
\* loss, calculateTechnicalIndicators returns RSI = 100; for every series the
\* RSI is within [0, 100].
C12_RsiHundredWithoutLoss ==
  Indicated =>
    /\ (Len(args.candles) >= 20 /\ NoLossInLast14) => ret.rsi = R(100)
    /\ RLe(R(0), ret.rsi) /\ RLe(ret.rsi, R(100))

\* C13: a series of fewer than 20 candles gets rsi 50, sma = ema = the last
\* close (0 for the empty series), Bollinger bands 0 and MACD 0 from
\* calculateTechnicalIndicators; a series of fewer than 30 candles gets
\* winRate 50 and 0 for the other three metrics from calculateWinningMetrics.
C13_InsufficientDataDefaults ==
  /\ (Indicated /\ Len(args.candles) < 20) =>
       LET lastClose == IF Len(args.candles) = 0 THEN R(0)
                        ELSE args.candles[Len(args.candles)].c
       IN  ret = [rsi |-> R(50), sma |-> lastClose,
                  ema |-> Ema(lastClose, <<>>),
                  bollinger |-> [upper |-> Surd(R(0), R(0), R(0)),
                                 middle |-> R(0),
                                 lower |-> Surd(R(0), R(0), R(0))],
                  macd |-> [macd |-> R(0), signal |-> R(0),
                            histogram |-> R(0)]]
  /\ (Measured /\ Len(args.candles) < 30) =>
       ret = [winRate |-> R(50), sharpeRatio |-> OverSqrt(R(0), R(1)),
              maxDrawdown |-> R(0), avgVolatility |-> R(0)]

\* 19 candles whose closes are not flat, answered with the defaults
C13_Witness ==
  /\ Indicated
  /\ Len(args.candles) = 19
  /\ args.candles[1].c # args.candles[19].c
  /\ ret.rsi = R(50)
  /\ ret.sma = args.candles[19].c

\* the mean of the closes
Average(closes) == RDiv(Sum(closes), R(Len(closes)))

\* C14: for a series of at least 20 candles the MACD value is the average of
\* the last 12 closes minus the average of the last 26 closes (of all the
\* closes when there are fewer than 26), the signal is the MACD value and the
\* histogram is 0.
C14_MacdOfAverages ==
  (Indicated /\ Len(args.candles) >= 20) =>
    LET closes == Closes(args.candles)
    IN  /\ ret.macd.macd = RSub(Average(SliceLast(closes, 12)),
                                Average(SliceLast(closes, 26)))
        /\ ret.macd.signal = ret.macd.macd
        /\ ret.macd.histogram = R(0)

(***************************************************************************)
(* Properties of identifyRealPatterns and recognizePatterns                *)
(***************************************************************************)
Recognized == op = "recognizePatterns"

Identified == op = "identifyRealPatterns"

\* what a scan of every timeframe puts in the list
ScanOfTimeframe(k) ==
  LET found == identifyRealPatterns(args.candles[k])
  IN  [i \in 1..Len(found) |->
         [found[i] EXCEPT !.timeframe = args.timeframes[k]]]

ScanOfTimeframes ==
  IF Len(args.timeframes) = 1 THEN ScanOfTimeframe(1)
  ELSE ScanOfTimeframe(1) \o ScanOfTimeframe(2)

\* C15: recognizePatterns scans every series of at least 50 candles: its
\* list holds, for each timeframe, the patterns that identifyRealPatterns
\* finds in the candles, also when exactly 50 candles are delivered.
C15_FiftyCandlesScanned ==
  (Recognized /\ ret.ok
   /\ \A k \in 1..Len(args.candles) : Len(args.candles[k]) >= 50) =>
    ret.patterns = ScanOfTimeframes

\* the candles of the call by their JavaScript index
CandleCount == Len(args.candles)

HighAt(i) == args.candles[i + 1].h

LowAt(i) == args.candles[i + 1].l

CloseAt(i) == args.candles[i + 1].c

VolumeAt(i) == args.candles[i + 1].v

\* the interior indices that are local highs, local lows
LocalHighs ==
  {i \in 10..(CandleCount - 11) :
     RGt(HighAt(i), HighAt(i - 5)) /\ RGt(HighAt(i), HighAt(i + 5))}

LocalLows ==
  {i \in 10..(CandleCount - 11) :
     RLt(LowAt(i), LowAt(i - 5)) /\ RLt(LowAt(i), LowAt(i + 5))}

\* the latest index of a set of indices, and the one before it
Latest(indices) == CHOOSE i \in indices : \A j \in indices : j <= i

Previous(indices) == Latest(indices \ {Latest(indices)})

LastIndices(count) == (CandleCount - count)..(CandleCount - 1)

CurrentPriceOfCall == CloseAt(CandleCount - 1)

RecentHighOfCall ==
  CHOOSE h \in {HighAt(i) : i \in LastIndices(20)} :
    \A i \in LastIndices(20) : RLe(HighAt(i), h)

RecentLowOfCall ==
  CHOOSE l \in {LowAt(i) : i \in LastIndices(20)} :
    \A i \in LastIndices(20) : RLe(l, LowAt(i))

\* the mean volume, the mean close of the last count candles
MeanVolume(count) ==
  RDiv(Sum([k \in 1..count |-> VolumeAt(CandleCount - k)]), R(count))

MeanClose(count) ==
  RDiv(Sum([k \in 1..count |-> CloseAt(CandleCount - k)]), R(count))

\* the threshold rules of the four patterns
RisingWedgeRule ==
  /\ Cardinality(LocalHighs) >= 2
  /\ Cardinality(LocalLows) >= 2
  /\ LET h2 == Latest(LocalHighs)
         h1 == Previous(LocalHighs)
         l2 == Latest(LocalLows)
         l1 == Previous(LocalLows)
         highSlope == RDiv(RSub(HighAt(h2), HighAt(h1)), R(h2 - h1))
         lowSlope == RDiv(RSub(LowAt(l2), LowAt(l1)), R(l2 - l1))
     IN  /\ RGt(highSlope, R(0))
         /\ RGt(lowSlope, highSlope)
         /\ RLt(MeanVolume(5), RMul(MeanVolume(20), Rat(8, 10)))

DoubleTopRule ==
  /\ Cardinality(LocalHighs) >= 2
  /\ LET h2 == HighAt(Latest(LocalHighs))
         h1 == HighAt(Previous(LocalHighs))
     IN  RLt(MathAbs(RSub(h2, h1)), RMul(h1, Rat(2, 100)))
  /\ RLt(CurrentPriceOfCall, RMul(RecentHighOfCall, Rat(95, 100)))

BullishFlagRule ==
  /\ RGt(CurrentPriceOfCall, RMul(MeanClose(20), Rat(105, 100)))
  /\ RLt(RSub(RecentHighOfCall, RecentLowOfCall),
         RMul(CurrentPriceOfCall, Rat(4, 100)))
  /\ RGt(MeanVolume(5), MeanVolume(20))

DescendingTriangleRule ==
  /\ Cardinality({i \in LastIndices(10) :
                    RLt(MathAbs(RSub(LowAt(i), RecentLowOfCall)),
                        RMul(RecentLowOfCall, Rat(1, 100)))}) >= 2
  /\ RLt(CurrentPriceOfCall, RMul(RecentHighOfCall, Rat(98, 100)))

\* name, confidence and signal of the patterns whose rule holds, in the
\* order of detection
ExpectedPatterns ==
  SelectSeq(
    <<[pattern |-> "RISING WEDGE", confidence |-> 78, signal |-> "bearish",
       holds |-> RisingWedgeRule],
      [pattern |-> "DOUBLE TOP", confidence |-> 72, signal |-> "bearish",
       holds |-> DoubleTopRule],
      [pattern |-> "BULLISH FLAG", confidence |-> 69, signal |-> "bullish",
       holds |-> BullishFlagRule],
      [pattern |-> "DESCENDING TRIANGLE", confidence |-> 75,
       signal |-> "bearish", holds |-> DescendingTriangleRule]>>,
    LAMBDA e : e.holds)

\* C16: identifyRealPatterns emits a pattern exactly when its threshold rule
\* holds, whatever the other rules say, in the order Rising Wedge, Double
\* Top, Bullish Flag, Descending Triangle with confidences 78, 72, 69, 75 and
\* signals bearish, bearish, bullish, bearish; the local highs and lows are
\* the interior indices i whose high is above (low is below) those of i-5
\* and i+5.
C16_PatternsByRule ==
  (Identified /\ CandleCount >= 50) =>
    /\ Len(ret.patterns) = Len(ExpectedPatterns)
    /\ \A i \in 1..Len(ret.patterns) :
         /\ ret.patterns[i].pattern = ExpectedPatterns[i].pattern
         /\ ret.patterns[i].confidence = ExpectedPatterns[i].confidence
         /\ ret.patterns[i].signal = ExpectedPatterns[i].signal

\* a chart with two local highs and two local lows on which both the rising
\* wedge and the double top are emitted
C16_Witness ==
  /\ Identified
  /\ Cardinality(LocalHighs) = 2
  /\ Cardinality(LocalLows) = 2
  /\ Len(ret.patterns) = 2
  /\ ret.patterns[1].pattern = "RISING WEDGE"
  /\ ret.patterns[2].pattern = "DOUBLE TOP"

RoundTripped == op = "patternRoundTrip"

\* C17: the entry and the stopLoss of an emitted pattern, given to
\* calculatePositionSize with a leverage in 1..20 on an account with
\* available margin, give a result without error whose positionSize is a
\* multiple of the lot size of the symbol.
C17_PatternRoundTrip ==
  RoundTripped =>
    /\ ret.ok
    /\ IsMultipleOf(ret.positionSize, getAssetSpecsLotSize(args.symbol))

(***************************************************************************)
(* Properties of the price lookup                                          *)
(***************************************************************************)
PriceLooked == op = "lookUpPrice"

\* the price lookup of the call returned 0 for a symbol the tool needs the
\* price of
PriceUnavailable ==
  CASE args.tool \in {"recognizePatterns", "generateRecommendation"} ->
         args.prices[1] = R(0)
    [] args.tool = "executeTrade" ->
         args.price = R(0) /\ args.prices[1] = R(0)
    [] OTHER -> \E i \in 1..2 : args.prices[i] = R(0)

\* C18: when the price lookup returns 0, each of recognizePatterns,
\* generateRecommendation, executeTrade, analyzeMarkets,
\* findTopOpportunities and monitorPositions fails with an error, and none
\* goes on with a price of 0.
C18_ZeroPriceFatal ==
  (PriceLooked /\ PriceUnavailable) =>
    /\ ret.failed
    /\ \A i \in 1..Len(ret.priced) : ret.priced[i].currentPrice # R(0)

(***************************************************************************)
(* Properties of the sessions                                              *)
(***************************************************************************)
\* the session of the call was authenticated and the call is made at most
\* SESSION_TIMEOUT after the last successful authenticateUser for it
WithinSessionLifetime ==
  LET t == lastAuth[getSessionId(args.context)]
  IN  t # -1 /\ args.at <= t + SESSION_TIMEOUT

\* C20: after a successful authenticateUser at time t for a session, each
\* auth-requiring tool called for it at a time <= t + 60 minutes accepts the
\* session; called later without a new authentication (or never
\* authenticated) it is rejected with 'Authentication required' before any
\* call of the exchange; checkTradeAuth reports isAuthorized exactly when
\* the tools would accept.
C20_SessionLifetime ==
  /\ op = "authRequiringTool" =>
       IF WithinSessionLifetime
       THEN ret.accepted
       ELSE /\ ~ret.accepted
            /\ ret.error = AuthenticationRequired
            /\ ~ret.exchangeCalled
  /\ op = "checkTradeAuth" => (ret.isAuthorized <=> WithinSessionLifetime)

\* an auth-requiring tool accepted exactly 60 minutes after the
\* authentication of its session
C20_Witness ==
  /\ op = "authRequiringTool"
  /\ lastAuth[getSessionId(args.context)] # -1
  /\ args.at = lastAuth[getSessionId(args.context)] + SESSION_TIMEOUT
  /\ ret.accepted

(***************************************************************************)
(* The order tools                                                         *)
(***************************************************************************)
StopUpdated == op = "updateStopLoss"

PlaceIndex(calls) == CHOOSE i \in 1..Len(calls) : calls[i].call = "placeOrder"

\* C21: updateStopLoss cancels, then places: the new stop order is placed
\* only after every open stop-loss order of the symbol has been cancelled,
\* so that a successful update leaves exactly one stop-loss order, and a
\* failed update does not leave a position that had a stop without one.
C21_StopLossReplaced ==
  StopUpdated =>
    /\ \A i \in 1..Len(ret.calls) :
         ret.calls[i].call = "cancelOrder" => i < PlaceIndex(ret.calls)
    /\ (\E i \in 1..Len(ret.calls) : ret.calls[i].call = "placeOrder")
         => args.stopOrders \cap args.cancelFailures = {}
    /\ ret.success => Cardinality(ret.openStops) = 1
    /\ (~ret.success /\ args.stopOrders # {}) => ret.openStops # {}

(***************************************************************************)
(* monitorPositions                                                        *)
(***************************************************************************)
Monitored == op = "monitorPositions" /\ ret.ok

\* totalMarginUsed above (below) the given percentage of accountValue
UsageAbove(percent) ==
  RGt(RMul(args.account.totalMarginUsed, R(100)),
      RMul(R(percent), args.account.accountValue))

UsageBelow(percent) ==
  RLt(RMul(args.account.totalMarginUsed, R(100)),
      RMul(R(percent), args.account.accountValue))

\* the unrealized loss is more than the given percentage of accountValue
LossAbove(percent) ==
  RGt(RMul(RNeg(args.totalUnrealizedPnl), R(100)),
      RMul(R(percent), args.account.accountValue))

\* the unrealized P&L, profit or loss, is more than the percentage
PnlAbove(percent) ==
  RGt(RMul(MathAbs(args.totalUnrealizedPnl), R(100)),
      RMul(R(percent), args.account.accountValue))

Scanned == op = "findTopOpportunities"

\* a is ranked before b: by the win rate when the win rates differ by more
\* than 5 points, by the score otherwise
RankedBefore(a, b) ==
  IF RGt(MathAbs(RSub(a.winRate, b.winRate)), R(5))
  THEN RGt(a.winRate, b.winRate)
  ELSE RGe(a.score, b.score)

\* C23: findTopOpportunities returns at most topCount opportunities, each
\* with a score above 55 and a 24h volume of at least minVolume, ranked by
\* the win rate first: of two returned opportunities whose win rates differ
\* by more than 5 points the one with the higher win rate comes first, of
\* two others the one with the higher score; scanSummary.topWinRate is the
\* win rate of the first.
C23_RankedByWinRate ==
  Scanned =>
    LET opps == ret.opportunities
    IN  /\ Len(opps) <= args.topCount
        /\ \A i \in 1..Len(opps) :
             /\ RGt(opps[i].score, R(55))
             /\ RGe(opps[i].volume, args.minVolume)
        /\ \A i, j \in 1..Len(opps) :
             i < j => RankedBefore(opps[i], opps[j])
        /\ ret.scanSummary.topWinRate =
             IF Len(opps) > 0 THEN opps[1].winRate ELSE R(0)

(***************************************************************************)
(* executeTrade and closePosition                                          *)
(***************************************************************************)
Traded == op = "executeTrade"

Called(calls, name) == \E i \in 1..Len(calls) : calls[i].call = name

\* C24: when executeTrade fails before it places an order (no price
\* available, rounded size <= 0, margin insufficient for an order that is
\* not reduce-only, limit order without a price), it has made no
\* state-changing request: with success = false and no placeOrder there is
\* no updateLeverage either.
C24_NoLeverageWithoutOrder ==
  (Traded /\ ~ret.success /\ ~Called(ret.calls, "placeOrder"))
    => ~Called(ret.calls, "updateLeverage")

\* C25: the tools a tool calls resolve to the session of the outer call:
\* the executeTrade of closePosition and the getPositions and getAccountInfo
\* of monitorPositions never run for another session id than the one of the
\* caller's context.
C25_NestedSessionIsCallers ==
  op \in {"closePosition", "monitorPositions"} =>
    \A i \in 1..Len(ret.nestedSessions) :
      ret.nestedSessions[i] = getSessionId(args.context)

Closed == op = "closePosition"

\* C26: closePosition never submits an order for more than the open
\* position, after the lot rounding of executeTrade, and a request for more
\* than the position is rejected with INVALID_SIZE and without an order.
C26_CloseWithinPosition ==
  Closed =>
    /\ \A i \in 1..Len(ret.calls) :
         ret.calls[i].call = "placeOrder"
           => RLe(ret.calls[i].sz, MathAbs(args.szi))
    /\ (args.szi # R(0) /\ ~ret.thrown /\ RGt(args.size, MathAbs(args.szi)))
         => /\ ret.status = "INVALID_SIZE"
            /\ ~Called(ret.calls, "placeOrder")

(***************************************************************************)
(* calculatePositionSize: the margin of the sized position                 *)
(***************************************************************************)
AvailableOfCall == RSub(args.accountValue, args.totalMarginUsed)

\* usagePct% of the available margin, as marginRequired is reported
UsableOfCall ==
  RoundTo(RMul(AvailableOfCall, Rat(ret.riskMetrics.dynamicRiskUsed, 100)),
          100)

\* C27: every calculatePositionSize call (entryPrice > 0, leverage >= 1,
\* available margin > 0) that reaches the warnings requires at most
\* usagePct% of the available margin, at most 85% of it, so that neither the
\* warning for more than 95% of the available margin nor the clamp of a
\* position that exceeds the available margin is ever produced.
C27_MarginWithinUsage ==
  SizedOk =>
    /\ RLe(ret.marginRequired, UsableOfCall)
    /\ ret.riskMetrics.dynamicRiskUsed <= 85
    /\ WarnMargin95 \notin Elements(ret.warnings)
    /\ WarnExceedsMargin \notin Elements(ret.warnings)

\* a micro account whose position takes the whole 85% of its available
\* margin
C27_Witness ==
  /\ SizedOk
  /\ ret.riskMetrics.dynamicRiskUsed = 85
  /\ RGt(AvailableOfCall, R(0))
  /\ ret.marginRequired = UsableOfCall

(***************************************************************************)
(* identifyRealPatterns on well-formed candles                             *)
(***************************************************************************)
\* low <= close <= high, with positive prices, on each of the last 20
\* candles of the call
WellFormedCall ==
  \A i \in LastIndices(20) :
    /\ RGt(LowAt(i), R(0))
    /\ RLe(LowAt(i), CloseAt(i))
    /\ RLe(CloseAt(i), HighAt(i))

\* C28: on well-formed candles (positive prices, low <= close <= high on
\* each of the last 20) identifyRealPatterns never emits BULLISH FLAG: the
\* price cannot be above 1.05 times the 20-candle mean close while the
\* 20-candle range is below 4% of the price; every emitted pattern is
\* bearish.
C28_NoBullishFlag ==
  (Identified /\ CandleCount >= 50 /\ WellFormedCall) =>
    \A i \in 1..Len(ret.patterns) :
      /\ ret.patterns[i].pattern # "BULLISH FLAG"
      /\ ret.patterns[i].signal = "bearish"

\* the price is above 1.05 times the mean close, the recent volume above the
\* average and the range below 6% of the price, and no flag is emitted
C28_Witness ==
  /\ Identified
  /\ CandleCount >= 50
  /\ WellFormedCall
  /\ RGt(CurrentPriceOfCall, RMul(MeanClose(20), Rat(105, 100)))
  /\ RGt(MeanVolume(5), MeanVolume(20))
  /\ RLt(RSub(RecentHighOfCall, RecentLowOfCall),
         RMul(CurrentPriceOfCall, Rat(6, 100)))
  /\ \A i \in 1..Len(ret.patterns) : ret.patterns[i].pattern # "BULLISH FLAG"

\* a flag is emitted for a chart whose last candle has its high below its
\* close
IllFormedFlag ==
  /\ Identified
  /\ ~WellFormedCall
  /\ \E i \in 1..Len(ret.patterns) : ret.patterns[i].pattern = "BULLISH FLAG"

(***************************************************************************)
(* The overall signal and the recommendation                               *)
(***************************************************************************)
Recommended == op = "generateRecommendation" /\ ret.ok

SignalCount(signal) ==
  Cardinality({i \in 1..Len(ret.patterns) : ret.patterns[i].signal = signal})

\* C29: recognizePatterns never returns strong_bullish and returns
\* strong_bearish whenever it found two or more bearish patterns; so
\* generateRecommendation never returns STRONG_BUY and never takes its SELL
\* rule of confidence 80, which asks for the signal bearish together with
\* two or more bearish patterns.
C29_NoStrongBullish ==
  /\ (Recognized /\ ret.ok) =>
       /\ ret.overallSignal # "strong_bullish"
       /\ SignalCount("bearish") >= 2 => ret.overallSignal = "strong_bearish"
  /\ Recommended =>
       /\ ret.recommendation.action # "STRONG_BUY"
       /\ ~(ret.recommendation.action = "SELL"
            /\ ret.recommendation.confidence = 80)

\* two bullish flags, one per timeframe, a win rate above 70 and fear: the
\* signal is bullish and the recommendation BUY
C29_Witness ==
  /\ Recommended
  /\ ret.patternCount.bullish = 2
  /\ ret.patternCount.bearish = 0
  /\ RGt(args.marketData.winRate, R(70))
  /\ RLt(args.fearGreedIndex, R(40))
  /\ ret.overallSignal = "bullish"
  /\ ret.recommendation.action = "BUY"

\* one bearish pattern, the signal bearish, a win rate above 65 and no
\* SELL of confidence 80
OneBearishPattern ==
  /\ Recommended
  /\ ret.patternCount.bearish = 1
  /\ ret.overallSignal = "bearish"
  /\ RGt(args.marketData.winRate, R(65))


TestStarted(e) == rpc.tests[e].pc # "notCalled"

TestReturned(e) ==
  /\ rpc.tests[e].pc = "returned"
  /\ rpc.tests[e].status \in {"online", "offline"}

\* C30: every call of testRpcEndpoint eventually returns a result whose
\* status is 'online' or 'offline', whatever the endpoint does, and so the
\* Promise.all of compareNetworkRpcs over the endpoints resolves.
C30_EveryTestReturns ==
  /\ \A e \in Endpoints : TestStarted(e) ~> TestReturned(e)
  /\ (rpc.tool = "awaiting") ~> (rpc.tool = "resolved")

====
